---- MODULE Spec2Model ----
(***************************************************************************)
(* Fraud-signal analytics engine of src/backend/fraud_detection.py, with   *)
(* the orchestrators of src/backend/tools.py that compose it and the       *)
(* request checks of the entry points that call them, and the paginating   *)
(* generator of src/backend/dal.py.                                        *)
(* Each detector is a pure function over a batch of decoded events; it is  *)
(* modelled as an operator that folds over the batch the way the Python    *)
(* loop does, and is exercised by a specification that draws the inputs    *)
(* from bounded sets and applies the function.                             *)
(*                                                                         *)
(* Python floats are modelled as exact rationals (cross-multiplied integer *)
(* comparisons); Python's None is NONE for addresses and the empty tuple   *)
(* for optional integers.                                                  *)
(***************************************************************************)
EXTENDS Integers, Sequences, FiniteSets, TLC

VARIABLES
    \* score_wallet_activity: arguments and returned list
    watched_addresses, anomalies, large_transfers, centrality, scores,
    \* the detectors: the event batch, the keyword arguments, the position of
    \* the scan and the running price of analyze_swap_price_impact, the
    \* returned list, and where the call stands
    decoded_logs, z_threshold, min_value, min_degree, max_swaps,
    min_price_delta_bps, min_notional, position, prev_price, findings, pc,
    \* the labeler and the pattern filter: the transaction list, the keyword
    \* arguments and the filtered list
    transactions, watchlist, large_value_threshold,
    include_self_transfers, include_zero_value, filtered_patterns,
    \* the orchestrators: the request, the number of fetches made, the
    \* findings of the detectors that have no variable above, and the response
    request, fetch_calls, trend_alerts, price_impacts, wash_trades, enriched, response,
    \* _sanitize_large_ints: the argument and the returned object
    obj, sanitized,
    \* two invocations in progress at once, each with its own arguments and
    \* locals
    calls,
    \* HyperSyncClient.paginate: its arguments, the query it holds (q), the
    \* last payload, the queries posted so far, and where the generator stands
    base_query, max_pages, query, response_payload, requests, gen

scoreVars == <<watched_addresses, anomalies, large_transfers, centrality, scores>>

optionVars == <<z_threshold, min_value, min_degree, max_swaps, min_price_delta_bps, min_notional>>

detectVars == <<decoded_logs, optionVars, position, prev_price, findings, pc>>

labelVars == <<transactions, watchlist, large_value_threshold,
               include_self_transfers, include_zero_value, filtered_patterns>>

orchVars == <<request, fetch_calls, trend_alerts, price_impacts, wash_trades, enriched,
              response>>

sanitizeVars == <<obj, sanitized>>

interleaveVars == <<calls>>

pageVars == <<base_query, max_pages, query, response_payload, requests, gen>>

callVars == <<labelVars, orchVars, sanitizeVars, interleaveVars, pageVars>>

vars == <<scoreVars, detectVars, callVars>>

----------------------------------------------------------------------------
(* Values *)

\* Python's None where an address string is expected
NONE == "<None>"

\* Python's None where an integer is expected: an optional integer is a
\* sequence of length 0 (None) or 1 (the integer)
NoInt == <<>>

Some(n) == <<n>>

\* str.lower() on the address strings the model uses
LowerTable ==
    [a \in {"0xA", "0xa", "0xB", "0xb", "0xC", "0xc", "0xPool", "0xpool", ""} |->
        CASE a = "0xA" -> "0xa"
          [] a = "0xB" -> "0xb"
          [] a = "0xC" -> "0xc"
          [] a = "0xPool" -> "0xpool"
          [] OTHER -> a]

Lower(a) == LowerTable[a]

\* truthiness of an optional address: None and "" are falsy
Truthy(a) == a # NONE /\ a # ""

\* A raw decoded value: a native int, a string, or None
IntVal(n) == [t |-> "int", n |-> n, s |-> ""]

StrVal(s) == [t |-> "str", n |-> 0, s |-> s]

NoneVal == [t |-> "none", n |-> 0, s |-> ""]

\* int(s, 16) on the "0x"-prefixed strings of the model; absent = ValueError
HexLiteral ==
    [s \in {"0x0", "0xc8", "0x3e8", "0xf4240", "0x7d0"} |->
        CASE s = "0x0" -> 0
          [] s = "0xc8" -> 200
          [] s = "0x3e8" -> 1000
          [] s = "0xf4240" -> 1000000
          [] s = "0x7d0" -> 2000]

\* int(s) on the other strings of the model; absent = ValueError
DecLiteral ==
    [s \in {"0", "1000", "1000000", "2000"} |->
        CASE s = "0" -> 0
          [] s = "1000" -> 1000
          [] s = "1000000" -> 1000000
          [] s = "2000" -> 2000]

StartsWith0x(s) == s \in {"0x0", "0xc8", "0x3e8", "0xf4240", "0x7d0", "0xzz"}

_maybe_hex_to_int(value) ==
    IF value.t = "none" THEN NoInt
    ELSE IF value.t = "int" THEN Some(value.n)
    ELSE IF StartsWith0x(value.s)
         THEN (IF value.s \in DOMAIN HexLiteral THEN Some(HexLiteral[value.s]) ELSE NoInt)
         ELSE (IF value.s \in DOMAIN DecLiteral THEN Some(DecLiteral[value.s]) ELSE NoInt)

Event(ix, bd) == [indexed |-> ix, body |-> bd]

\* (from_addr, to_addr, value) of a decoded event
_extract_transfer(event) ==
    [from_addr |-> IF Len(event.indexed) > 0 THEN event.indexed[1] ELSE NONE,
     to_addr   |-> IF Len(event.indexed) > 1 THEN event.indexed[2] ELSE NONE,
     value     |-> IF Len(event.body) > 0
                   THEN (IF event.body[1].t = "str"
                         THEN _maybe_hex_to_int(event.body[1])
                         ELSE IF event.body[1].t = "none" THEN NoInt
                         ELSE Some(event.body[1].n))
                   ELSE NoInt]

Min(a, b) == IF a <= b THEN a ELSE b

Max(a, b) == IF a >= b THEN a ELSE b

Abs(a) == IF a < 0 THEN -a ELSE a

\* all sequences over S of length at most n
SeqsUpTo(S, n) == UNION {[1..k -> S] : k \in 0..n}

\* a Python float given as the rational num/den, den > 0
Rat(n, d) == [num |-> n, den |-> d]

\* no scorer call is modelled
ScoreIdle ==
    /\ watched_addresses = <<>>
    /\ anomalies = <<>>
    /\ large_transfers = <<>>
    /\ centrality = <<>>
    /\ scores = <<>>

\* the keyword arguments while no detector call is modelled
OptionsAtRest ==
    /\ z_threshold = Rat(2, 1)
    /\ min_value = 1000
    /\ min_degree = 1
    /\ max_swaps = 3
    /\ min_price_delta_bps = Rat(50, 1)
    /\ min_notional = NoInt

\* no request has been made of an orchestrator
NoRequest ==
    [kind |-> "none", entry |-> "direct", start_block |-> 0, end_block |-> 0,
     decode_methods |-> TRUE]

\* no response has been returned: a response is a dict of named sections,
\* and this one has none
NoResponse == <<>>

\* A JSON-like Python object: None, a str, an int of any size, a list or a
\* dict.  An int is a sign and a magnitude of four limbs in base 2^21, most
\* significant first (the first limb is not bounded); a str is its sequence
\* of characters; a dict keeps its values in kids, in key order
LIMB == 2097152

JNone == [t |-> "none", sign |-> 1, mag |-> <<0, 0, 0, 0>>, s |-> <<>>, kids |-> <<>>]

\* no labeler or filter call is modelled
LabelIdle ==
    /\ transactions = <<>>
    /\ watchlist = <<>>
    /\ large_value_threshold = 1000
    /\ include_self_transfers = TRUE
    /\ include_zero_value = TRUE
    /\ filtered_patterns = <<>>

\* no orchestrator run is modelled
OrchIdle ==
    /\ request = NoRequest
    /\ fetch_calls = 0
    /\ trend_alerts = <<>>
    /\ price_impacts = <<>>
    /\ wash_trades = <<>>
    /\ enriched = <<>>
    /\ response = NoResponse

\* no sanitizer call is modelled
SanitizeIdle ==
    /\ obj = JNone
    /\ sanitized = JNone

\* no pair of invocations is modelled
InterleaveIdle == calls = <<>>

\* no generator of paginate exists
PageIdle ==
    /\ base_query = <<>>
    /\ max_pages = 0
    /\ query = <<>>
    /\ response_payload = <<>>
    /\ requests = <<>>
    /\ gen = "none"

CallsIdle == LabelIdle /\ OrchIdle /\ SanitizeIdle /\ InterleaveIdle /\ PageIdle

\* no detector call is modelled
DetectIdle ==
    /\ decoded_logs = <<>>
    /\ OptionsAtRest
    /\ position = 0
    /\ prev_price = NoInt
    /\ findings = <<>>
    /\ pc = "idle"
    /\ CallsIdle

----------------------------------------------------------------------------
(* score_wallet_activity *)

ANOMALY_POINTS == 20

LARGE_TRANSFER_POINTS == 15

CENTRALITY_CAP == 25

CENTRALITY_WEIGHT == 5

SCORE_CAP == 100

\* a list in place of the dict: a repeated key is kept
DictKeys_KeepRepeats(s) == s

\* keys of a dict comprehension over a list: distinct items in first-seen order
RECURSIVE DictKeys(_)
DictKeys(s) ==
    IF s = <<>> THEN <<>>
    ELSE LET front == DictKeys(SubSeq(s, 1, Len(s) - 1))
             last == s[Len(s)]
         IN IF \E i \in 1..Len(front) : front[i] = last THEN front
            ELSE Append(front, last)

SeqToSet(s) == {s[i] : i \in 1..Len(s)}

\* one pass of "for addr in (sender, receiver)" for one finding
AddPoints(sc, addr, pts, factor) ==
    IF Truthy(addr) /\ Lower(addr) \in DOMAIN sc
    THEN [sc EXCEPT ![Lower(addr)] =
             [@ EXCEPT !.score = @ + pts, !.factors = Append(@, factor)]]
    ELSE sc

\* the loop over a list of findings (anomalies: 20 points, large transfers: 15)
RECURSIVE ScoreFindings(_, _, _, _)
ScoreFindings(sc, fs, pts, type) ==
    IF fs = <<>> THEN sc
    ELSE LET f == Head(fs)
             tr == _extract_transfer(f.event)
             factor == IF type = "z_score_anomaly"
                       THEN [type |-> type, z_score |-> f.z_score, value |-> tr.value]
                       ELSE [type |-> type, value |-> f.value]
             s1 == AddPoints(sc, tr.from_addr, pts, factor)
             s2 == AddPoints(s1, tr.to_addr, pts, factor)
         IN ScoreFindings(s2, Tail(fs), pts, type)

\* central_map: lower-cased address -> record, a later record replacing an
\* earlier one with the same key; records with a falsy address are dropped
RECURSIVE CentralMap(_)
CentralMap(cs) ==
    IF cs = <<>> THEN <<>>
    ELSE LET front == CentralMap(SubSeq(cs, 1, Len(cs) - 1))
             last == cs[Len(cs)]
         IN IF ~Truthy(last.address) THEN front
            ELSE Append(SelectSeq(front, LAMBDA r : Lower(r.address) # Lower(last.address)), last)

CentralLookup(cs, addr) ==
    LET hits == SelectSeq(CentralMap(cs), LAMBDA r : Lower(r.address) = addr)
    IN IF hits = <<>> THEN <<>> ELSE <<hits[1]>>

\* the final loop without the clamp to 100
ApplyCentrality_NoClamp(sc, cs) ==
    [a \in DOMAIN sc |->
        LET rec == CentralLookup(cs, a)
        IN IF rec # <<>>
           THEN [sc[a] EXCEPT
                    !.score = @ + Min(CENTRALITY_CAP, rec[1].degree * CENTRALITY_WEIGHT),
                    !.factors = Append(@, [type |-> "centrality", degree |-> rec[1].degree])]
           ELSE sc[a]]

\* the final loop: centrality bonus, then the clamp
ApplyCentrality(sc, cs) ==
    [a \in DOMAIN sc |->
        LET rec == CentralLookup(cs, a)
            withC == IF rec # <<>>
                     THEN [sc[a] EXCEPT
                              !.score = @ + Min(CENTRALITY_CAP, rec[1].degree * CENTRALITY_WEIGHT),
                              !.factors = Append(@, [type |-> "centrality", degree |-> rec[1].degree])]
                     ELSE sc[a]
        IN [withC EXCEPT !.score = Min(SCORE_CAP, @)]]

\* the entries returned in dict order, unsorted
SortByScoreDesc_Unsorted(s) == s

\* sorted(items, key=score, reverse=True): stable, descending
RECURSIVE SortByScoreDesc(_)
SortByScoreDesc(s) ==
    IF s = <<>> THEN <<>>
    ELSE LET front == SortByScoreDesc(SubSeq(s, 1, Len(s) - 1))
             last == s[Len(s)]
             keep == {i \in 1..Len(front) : front[i].score >= last.score}
             k == Cardinality(keep)
         IN SubSeq(front, 1, k) \o <<last>> \o SubSeq(front, k + 1, Len(front))

score_wallet_activity(watched_in, anomalies_in, large_in, centrality_in) ==
    LET watched == [i \in 1..Len(watched_in) |-> Lower(watched_in[i])]
        keys == DictKeys(watched)
        sc0 == [a \in SeqToSet(keys) |-> [address |-> a, score |-> 0, factors |-> <<>>]]
        sc1 == ScoreFindings(sc0, anomalies_in, ANOMALY_POINTS, "z_score_anomaly")
        sc2 == ScoreFindings(sc1, large_in, LARGE_TRANSFER_POINTS, "large_transfer")
        sc3 == ApplyCentrality(sc2, centrality_in)
    IN SortByScoreDesc([i \in 1..Len(keys) |-> sc3[keys[i]]])

----------------------------------------------------------------------------
(* Specification SpecScore: the scorer applied to growing finding lists *)

MaxWatched == 2

MaxAnomalies == 2

MaxLargeTransfers == 1

MaxCentrality == 2

WatchUniverse == {"0xA", "0xa", "0xB"}

\* transfer events the findings refer to: A->B, a self-transfer A->A, and an
\* event with the receiver missing
ScoreEvents ==
    {Event(<<"0xA", "0xB">>, <<IntVal(1000)>>),
     Event(<<"0xA", "0xA">>, <<IntVal(1000)>>),
     Event(<<"0xa">>, <<StrVal("0x3e8")>>)}

AnomalyFinding(e) == [event |-> e, z_score |-> 2]

LargeFinding(e) == [event |-> e, value |-> _extract_transfer(e).value[1]]

CentralityRecords ==
    {[address |-> "0xA", degree |-> 6],
     [address |-> "0xa", degree |-> 2]}

ScoreInit ==
    /\ DetectIdle
    /\ watched_addresses \in SeqsUpTo(WatchUniverse, MaxWatched)
    /\ anomalies = <<>>
    /\ large_transfers = <<>>
    /\ centrality = <<>>
    /\ scores = score_wallet_activity(watched_addresses, <<>>, <<>>, <<>>)

SubmitAnomaly(e) ==
    /\ pc = "idle"
    /\ Len(anomalies) < MaxAnomalies
    /\ anomalies' = Append(anomalies, AnomalyFinding(e))
    /\ scores' = score_wallet_activity(watched_addresses, anomalies', large_transfers, centrality)
    /\ UNCHANGED <<watched_addresses, large_transfers, centrality, detectVars, callVars>>

SubmitLargeTransfer(e) ==
    /\ pc = "idle"
    /\ Len(large_transfers) < MaxLargeTransfers
    /\ large_transfers' = Append(large_transfers, LargeFinding(e))
    /\ scores' = score_wallet_activity(watched_addresses, anomalies, large_transfers', centrality)
    /\ UNCHANGED <<watched_addresses, anomalies, centrality, detectVars, callVars>>

SubmitCentrality(c) ==
    /\ pc = "idle"
    /\ Len(centrality) < MaxCentrality
    /\ centrality' = Append(centrality, c)
    /\ scores' = score_wallet_activity(watched_addresses, anomalies, large_transfers, centrality')
    /\ UNCHANGED <<watched_addresses, anomalies, large_transfers, detectVars, callVars>>

ScoreNext ==
    \/ \E e \in ScoreEvents : SubmitAnomaly(e)
    \/ \E e \in ScoreEvents : SubmitLargeTransfer(e)
    \/ \E c \in CentralityRecords : SubmitCentrality(c)

SpecScore == ScoreInit /\ [][ScoreNext]_vars

----------------------------------------------------------------------------
(* Claims about score_wallet_activity *)

\* number of findings in fs whose event has w as sender or receiver,
\* compared case-insensitively
Touches(f, w) ==
    LET tr == _extract_transfer(f.event)
    IN \/ (Truthy(tr.from_addr) /\ Lower(tr.from_addr) = w)
       \/ (Truthy(tr.to_addr) /\ Lower(tr.to_addr) = w)

TouchCount(fs, w) == Cardinality({i \in 1..Len(fs) : Touches(fs[i], w)})

\* number of (finding, endpoint) incidences on w
Incidences(fs, w) ==
    Cardinality({i \in 1..Len(fs) :
        LET tr == _extract_transfer(fs[i].event)
        IN Truthy(tr.from_addr) /\ Lower(tr.from_addr) = w})
    + Cardinality({i \in 1..Len(fs) :
        LET tr == _extract_transfer(fs[i].event)
        IN Truthy(tr.to_addr) /\ Lower(tr.to_addr) = w})

RecordsFor(w) == {i \in 1..Len(centrality) : Lower(centrality[i].address) = w}

ScoreOf(sl, w) == LET i == CHOOSE i \in 1..Len(sl) : sl[i].address = w IN sl[i].score

\* C1: every entry returned by score_wallet_activity has an integer score
\* with 0 <= score <= 100.
C1_ScoreBounded ==
    \A i \in 1..Len(scores) : scores[i].score \in 0..SCORE_CAP

\* a watched address whose unclamped total exceeds 100 and is reported as 100
C1_Witness ==
    \E i \in 1..Len(scores) :
        /\ scores[i].score = SCORE_CAP
        /\ ANOMALY_POINTS * Incidences(anomalies, scores[i].address)
             + LARGE_TRANSFER_POINTS * Incidences(large_transfers, scores[i].address)
             > SCORE_CAP

\* C2: adding a further anomaly finding, large-transfer finding or centrality
\* record never lowers the final score of any watched address.
C2_Monotonic ==
    [][\A i \in 1..Len(scores) :
          ScoreOf(scores', scores[i].address) >= scores[i].score]_vars

\* C3: the final score of a watched address w is min(100, 20*A + 15*L + C),
\* A and L counting each touching finding once, C = min(25, 5*degree) of a
\* centrality record of w, or 0 when w has none.
C3_ScoreFormula ==
    \A i \in 1..Len(scores) :
        LET w == scores[i].address
            base == ANOMALY_POINTS * TouchCount(anomalies, w)
                      + LARGE_TRANSFER_POINTS * TouchCount(large_transfers, w)
        IN IF RecordsFor(w) = {}
           THEN scores[i].score = Min(SCORE_CAP, base)
           ELSE \E j \in RecordsFor(w) :
                   scores[i].score =
                       Min(SCORE_CAP, base + Min(CENTRALITY_CAP,
                                                 CENTRALITY_WEIGHT * centrality[j].degree))

\* C4: exactly one entry per distinct lower-cased watchlist address, none for
\* any other address; an address no finding or record mentions has score 0
\* and no factors.
C4_OneEntryPerWatched ==
    /\ {scores[i].address : i \in 1..Len(scores)}
         = {Lower(watched_addresses[i]) : i \in 1..Len(watched_addresses)}
    /\ \A i, j \in 1..Len(scores) : scores[i].address = scores[j].address => i = j
    /\ \A i \in 1..Len(scores) :
          (/\ TouchCount(anomalies, scores[i].address) = 0
           /\ TouchCount(large_transfers, scores[i].address) = 0
           /\ RecordsFor(scores[i].address) = {})
          => (scores[i].score = 0 /\ scores[i].factors = <<>>)

\* a watched address no finding mentions, reported next to a scored one
C4_Witness ==
    /\ Len(watched_addresses) = 2
    /\ Len(scores) = 2
    /\ anomalies # <<>>
    /\ scores[1].score > 0
    /\ scores[2].score = 0
    /\ scores[2].factors = <<>>

----------------------------------------------------------------------------
(* _z_scores and detect_value_anomalies *)

RECURSIVE Sum(_)
Sum(s) == IF s = <<>> THEN 0 ELSE Head(s) + Sum(Tail(s))

RECURSIVE GCD(_, _)
GCD(a, b) == IF b = 0 THEN a ELSE GCD(b, a % b)

RECURSIVE SeqGCD(_)
SeqGCD(s) == IF s = <<>> THEN 0 ELSE GCD(Abs(Head(s)), SeqGCD(Tail(s)))

\* A z-score (v - mean) / std_dev over n values with sum S and sum of squares
\* Q is (n*v - S) / sqrt(n*Q - S*S); it is kept as [num, den2] standing for
\* num / sqrt(den2).  The values are first divided by their common divisor,
\* which leaves every z-score unchanged and keeps the products in range.
ZeroScore == [num |-> 0, den2 |-> 1]

\* the z-scores taken without the check of the standard deviation
_z_scores_NoZeroGuard(values) ==
    IF values = <<>> THEN <<>>
    ELSE IF Len(values) = 1 THEN <<ZeroScore>>
    ELSE LET g == IF SeqGCD(values) = 0 THEN 1 ELSE SeqGCD(values)
             v == [i \in 1..Len(values) |-> values[i] \div g]
             n == Len(values)
             S == Sum(v)
             Q == Sum([i \in 1..n |-> v[i] * v[i]])
         IN [i \in 1..n |-> [num |-> n * v[i] - S, den2 |-> n * Q - S * S]]

_z_scores(values) ==
    IF values = <<>> THEN <<>>
    ELSE IF Len(values) = 1 THEN <<ZeroScore>>
    ELSE LET g == IF SeqGCD(values) = 0 THEN 1 ELSE SeqGCD(values)
             v == [i \in 1..Len(values) |-> values[i] \div g]
             n == Len(values)
             S == Sum(v)
             Q == Sum([i \in 1..n |-> v[i] * v[i]])
             den2 == n * Q - S * S
         IN IF den2 = 0
            THEN [i \in 1..n |-> ZeroScore]
            ELSE [i \in 1..n |-> [num |-> n * v[i] - S, den2 |-> den2]]

\* abs(score) > t, the boundary left out
AbsGt(z, t) == t.den * t.den * z.num * z.num > t.num * t.num * z.den2

\* abs(score) >= t for a threshold t >= 0
AbsGe(z, t) == t.den * t.den * z.num * z.num >= t.num * t.num * z.den2

\* the values list: one float per event with a non-empty body and a value
\* that is not None after normalisation
RECURSIVE CollectValues(_)
CollectValues(logs) ==
    IF logs = <<>> THEN <<>>
    ELSE LET body == Head(logs).body
             maybe_value == IF body = <<>> THEN NoInt
                            ELSE IF body[1].t = "str" THEN _maybe_hex_to_int(body[1])
                            ELSE IF body[1].t = "none" THEN NoInt
                            ELSE Some(body[1].n)
         IN maybe_value \o CollectValues(Tail(logs))

\* zip(decoded_logs, scores): pairs up to the shorter length
ZipScores(logs, zs) ==
    [i \in 1..Min(Len(logs), Len(zs)) |-> [event |-> logs[i], z_score |-> zs[i]]]

detect_value_anomalies(logs, threshold) ==
    LET zs == _z_scores(CollectValues(logs))
    IN SelectSeq(ZipScores(logs, zs), LAMBDA f : AbsGe(f.z_score, threshold))

----------------------------------------------------------------------------
(* detect_large_transfers *)

\* the loop over the batch; int(None) raises TypeError and ends the call
RECURSIVE LargeTransferLoop(_, _, _)
LargeTransferLoop(logs, mv, flagged) ==
    IF logs = <<>> THEN [raised |-> FALSE, flagged |-> flagged]
    ELSE LET entry == Head(logs)
             body == entry.body
         IN IF body = <<>> THEN LargeTransferLoop(Tail(logs), mv, flagged)
            ELSE IF body[1].t = "none" THEN [raised |-> TRUE, flagged |-> <<>>]
            ELSE LET integer_value == IF body[1].t = "str"
                                      THEN _maybe_hex_to_int(body[1])
                                      ELSE Some(body[1].n)
                 IN IF integer_value = NoInt
                    THEN LargeTransferLoop(Tail(logs), mv, flagged)
                    ELSE IF integer_value[1] >= mv
                    THEN LargeTransferLoop(Tail(logs), mv,
                             Append(flagged, [event |-> entry, value |-> integer_value[1]]))
                    ELSE LargeTransferLoop(Tail(logs), mv, flagged)

detect_large_transfers(logs, mv) == LargeTransferLoop(logs, mv, <<>>)

----------------------------------------------------------------------------
(* compute_address_centrality *)

\* edges[a].add(b) on the defaultdict, kept as a list of entries in key
\* insertion order
AddNeighbor(edges, a, b) ==
    IF \E i \in 1..Len(edges) : edges[i].address = a
    THEN [i \in 1..Len(edges) |->
             IF edges[i].address = a
             THEN [edges[i] EXCEPT !.neighbors = @ \cup {b}]
             ELSE edges[i]]
    ELSE Append(edges, [address |-> a, neighbors |-> {b}])

RECURSIVE BuildEdges(_, _)
BuildEdges(logs, edges) ==
    IF logs = <<>> THEN edges
    ELSE LET tr == _extract_transfer(Head(logs))
         IN IF ~Truthy(tr.from_addr) \/ ~Truthy(tr.to_addr)
            THEN BuildEdges(Tail(logs), edges)
            ELSE BuildEdges(Tail(logs),
                     AddNeighbor(AddNeighbor(edges, tr.from_addr, tr.to_addr),
                                 tr.to_addr, tr.from_addr))

\* sorted(centrality, key=degree, reverse=True): stable, descending
RECURSIVE SortByDegreeDesc(_)
SortByDegreeDesc(s) ==
    IF s = <<>> THEN <<>>
    ELSE LET front == SortByDegreeDesc(SubSeq(s, 1, Len(s) - 1))
             last == s[Len(s)]
             k == Cardinality({i \in 1..Len(front) : front[i].degree >= last.degree})
         IN SubSeq(front, 1, k) \o <<last>> \o SubSeq(front, k + 1, Len(front))

compute_address_centrality(logs, md) ==
    LET edges == BuildEdges(logs, <<>>)
        records == [i \in 1..Len(edges) |->
                       [address |-> edges[i].address,
                        degree |-> Cardinality(edges[i].neighbors)]]
    IN SortByDegreeDesc(SelectSeq(records, LAMBDA r : r.degree >= md))

----------------------------------------------------------------------------
(* detect_swap_wash_trades *)

\* the order of Python string comparison on the lower-cased addresses
StrRank ==
    [a \in {"0xa", "0xb", "0xc", "0xpool"} |->
        CASE a = "0xa" -> 1 [] a = "0xb" -> 2 [] a = "0xc" -> 3 [] a = "0xpool" -> 4]

\* the pair left in event order: (A, B) and (B, A) are different keys
PairKey_Unsorted(sender, recipient) == <<Lower(sender), Lower(recipient)>>

\* tuple(sorted((sender.lower(), recipient.lower())))
PairKey(sender, recipient) ==
    IF StrRank[Lower(sender)] <= StrRank[Lower(recipient)]
    THEN <<Lower(sender), Lower(recipient)>>
    ELSE <<Lower(recipient), Lower(sender)>>

\* edges[key] = edges.get(key, 0) + 1, entries in key insertion order
CountPair(edges, key) ==
    IF \E i \in 1..Len(edges) : edges[i].key = key
    THEN [i \in 1..Len(edges) |->
             IF edges[i].key = key THEN [edges[i] EXCEPT !.count = @ + 1] ELSE edges[i]]
    ELSE Append(edges, [key |-> key, count |-> 1])

RECURSIVE CountPairs(_, _)
CountPairs(logs, edges) ==
    IF logs = <<>> THEN edges
    ELSE LET indexed == Head(logs).indexed
         IN IF Len(indexed) < 3 THEN CountPairs(Tail(logs), edges)
            ELSE IF ~Truthy(indexed[1]) \/ ~Truthy(indexed[2])
                 THEN CountPairs(Tail(logs), edges)
            ELSE CountPairs(Tail(logs), CountPair(edges, PairKey(indexed[1], indexed[2])))

detect_swap_wash_trades(logs, ms) ==
    LET edges == CountPairs(logs, <<>>)
        hits == SelectSeq(edges, LAMBDA e : e.count >= ms)
    IN [i \in 1..Len(hits) |->
           [type |-> "wash_trade_pair", participants |-> hits[i].key, swaps |-> hits[i].count]]

----------------------------------------------------------------------------
(* Specifications SpecAnomaly and SpecLarge: one call on a drawn batch *)

MaxBatch == 5

\* transfer events told apart by their primary value: native integers, a hex
\* string, an unparsable string, None, and an event with an empty body
ValueEvents ==
    {Event(<<"0xA", "0xB">>, <<IntVal(1000)>>),
     Event(<<"0xA", "0xB">>, <<IntVal(1000000)>>),
     Event(<<"0xA", "0xB">>, <<StrVal("0x3e8")>>),
     Event(<<"0xA", "0xB">>, <<StrVal("junk")>>),
     Event(<<"0xA", "0xB">>, <<NoneVal>>),
     Event(<<"0xA", "0xB">>, <<>>)}

ZThresholds == {Rat(2, 1), Rat(1, 1)}

MinValues == {1000, 1000000}

\* a detector call about to start
CallReady ==
    /\ ScoreIdle
    /\ position = 0
    /\ prev_price = NoInt
    /\ findings = <<>>
    /\ pc = "ready"
    /\ CallsIdle

AnomalyInit ==
    /\ CallReady
    /\ decoded_logs \in SeqsUpTo(ValueEvents, MaxBatch)
    /\ z_threshold \in ZThresholds
    /\ min_value = 1000
    /\ min_degree = 1
    /\ max_swaps = 3
    /\ min_price_delta_bps = Rat(50, 1)
    /\ min_notional = NoInt

CallDetectValueAnomalies ==
    /\ pc = "ready"
    /\ findings' = detect_value_anomalies(decoded_logs, z_threshold)
    /\ pc' = "done"
    /\ UNCHANGED <<scoreVars, decoded_logs, optionVars, position, prev_price, callVars>>

SpecAnomaly == AnomalyInit /\ [][CallDetectValueAnomalies]_vars

LargeInit ==
    /\ CallReady
    /\ decoded_logs \in SeqsUpTo(ValueEvents, MaxBatch)
    /\ z_threshold = Rat(2, 1)
    /\ min_value \in MinValues
    /\ min_degree = 1
    /\ max_swaps = 3
    /\ min_price_delta_bps = Rat(50, 1)
    /\ min_notional = NoInt

CallDetectLargeTransfers ==
    /\ pc = "ready"
    /\ LET r == detect_large_transfers(decoded_logs, min_value)
       IN /\ findings' = r.flagged
          /\ pc' = IF r.raised THEN "raised" ELSE "done"
    /\ UNCHANGED <<scoreVars, decoded_logs, optionVars, position, prev_price, callVars>>

SpecLarge == LargeInit /\ [][CallDetectLargeTransfers]_vars

----------------------------------------------------------------------------
(* Claims about detect_value_anomalies and detect_large_transfers *)

\* the subsequence of s at the indices in I
RECURSIVE Pick(_, _)
Pick(s, I) ==
    IF s = <<>> THEN <<>>
    ELSE LET front == Pick(SubSeq(s, 1, Len(s) - 1), I)
         IN IF Len(s) \in I THEN Append(front, s[Len(s)]) ELSE front

PrimaryValue(e) == _extract_transfer(e).value

Parsable(e) == PrimaryValue(e) # NoInt

ParsableIdx == {i \in 1..Len(decoded_logs) : Parsable(decoded_logs[i])}

\* abs(z) >= z_threshold for event i, the z-score taken over the parsable
\* values of the batch: with n values v of sum S and sum of squares Q,
\* z = (n*v - S) / sqrt(n*Q - S*S), and z = 0 when there is one value or no
\* spread.  Values in units of u, their common divisor.
IsOutlier(i) ==
    LET u == LET g == SeqGCD([k \in 1..Len(decoded_logs) |->
                        IF k \in ParsableIdx THEN PrimaryValue(decoded_logs[k])[1] ELSE 0])
             IN IF g = 0 THEN 1 ELSE g
        val(k) == PrimaryValue(decoded_logs[k])[1] \div u
        n == Cardinality(ParsableIdx)
        S == Sum([k \in 1..Len(decoded_logs) |-> IF k \in ParsableIdx THEN val(k) ELSE 0])
        Q == Sum([k \in 1..Len(decoded_logs) |-> IF k \in ParsableIdx THEN val(k) * val(k) ELSE 0])
        dev == n * val(i) - S
        p == z_threshold.num
        q == z_threshold.den
    IN /\ i \in ParsableIdx
       /\ IF n * Q - S * S = 0
          THEN p <= 0
          ELSE q * q * dev * dev >= p * p * (n * Q - S * S)

FlaggedEvents == [i \in 1..Len(findings) |-> findings[i].event]

\* four events of value 1000 and one of value 1,000,000, z_threshold 2.0
Scenario1 ==
    /\ Len(decoded_logs) = 5
    /\ z_threshold = Rat(2, 1)
    /\ ParsableIdx = 1..5
    /\ Cardinality({i \in 1..5 : PrimaryValue(decoded_logs[i]) = Some(1000)}) = 4
    /\ Cardinality({i \in 1..5 : PrimaryValue(decoded_logs[i]) = Some(1000000)}) = 1

\* C5: on a batch whose events all have a parsable primary value,
\* detect_value_anomalies returns, in batch order, exactly the events with
\* abs(z) >= z_threshold; four events of 1000 and one of 1,000,000 with
\* threshold 2.0 give exactly one finding, the outlier.
C5_AnomaliesExact ==
    (pc = "done" /\ ParsableIdx = 1..Len(decoded_logs)) =>
        /\ FlaggedEvents = Pick(decoded_logs, {i \in 1..Len(decoded_logs) : IsOutlier(i)})
        /\ Scenario1 =>
              (Len(findings) = 1 /\ PrimaryValue(findings[1].event) = Some(1000000))

\* the scenario batch after the call, with its single finding
C5_Witness ==
    /\ pc = "done"
    /\ Scenario1
    /\ Len(findings) = 1

\* C6: in a batch mixing parsable and unparsable values, no returned event has
\* an unparsable value, and every returned event is one whose own value has
\* abs(z) >= z_threshold over the parsable values.
C6_UnparsableNeverFlagged ==
    pc = "done" =>
        \A k \in 1..Len(findings) :
            /\ Parsable(findings[k].event)
            /\ \E i \in 1..Len(decoded_logs) :
                  decoded_logs[i] = findings[k].event /\ IsOutlier(i)

\* C7: detect_large_transfers returns, in batch order, exactly the events
\* whose primary value parses to an integer >= min_value, and completes
\* without raising whatever unparsable or null values the batch holds.
C7_LargeTransfersExact ==
    pc # "ready" =>
        /\ pc = "done"
        /\ findings =
             Pick([i \in 1..Len(decoded_logs) |->
                      [event |-> decoded_logs[i],
                       value |-> IF Parsable(decoded_logs[i])
                                 THEN PrimaryValue(decoded_logs[i])[1] ELSE 0]],
                  {i \in 1..Len(decoded_logs) :
                      Parsable(decoded_logs[i]) /\ PrimaryValue(decoded_logs[i])[1] >= min_value})

----------------------------------------------------------------------------
(* Specifications SpecCentrality and SpecWash: one call on a drawn batch *)

MaxGraphBatch == 3

\* transfer events told apart by their endpoints: letter-case variants of one
\* address, a self-transfer, a missing receiver and an empty sender
GraphEvents ==
    {Event(<<"0xA", "0xB">>, <<IntVal(1000)>>),
     Event(<<"0xa", "0xB">>, <<IntVal(1000)>>),
     Event(<<"0xB", "0xA">>, <<IntVal(1000)>>),
     Event(<<"0xA", "0xC">>, <<IntVal(1000)>>),
     Event(<<"0xA", "0xA">>, <<IntVal(1000)>>),
     Event(<<"0xC">>, <<IntVal(1000)>>),
     Event(<<"", "0xB">>, <<IntVal(1000)>>)}

MinDegrees == {1, 2}

CentralityInit ==
    /\ CallReady
    /\ decoded_logs \in SeqsUpTo(GraphEvents, MaxGraphBatch)
    /\ z_threshold = Rat(2, 1)
    /\ min_value = 1000
    /\ min_degree \in MinDegrees
    /\ max_swaps = 3
    /\ min_price_delta_bps = Rat(50, 1)
    /\ min_notional = NoInt

CallComputeAddressCentrality ==
    /\ pc = "ready"
    /\ findings' = compute_address_centrality(decoded_logs, min_degree)
    /\ pc' = "done"
    /\ UNCHANGED <<scoreVars, decoded_logs, optionVars, position, prev_price, callVars>>

SpecCentrality == CentralityInit /\ [][CallComputeAddressCentrality]_vars

MaxWashBatch == 4

\* swap-shaped events (sender, recipient, a third topic), one with two
\* indexed values only and one with an empty sender
WashEvents ==
    {Event(<<"0xA", "0xB", "0xPool">>, <<>>),
     Event(<<"0xB", "0xA", "0xPool">>, <<>>),
     Event(<<"0xb", "0xa", "0xPool">>, <<>>),
     Event(<<"0xA", "0xC", "0xPool">>, <<>>),
     Event(<<"0xC", "0xC", "0xPool">>, <<>>),
     Event(<<"0xA", "0xB">>, <<>>),
     Event(<<"", "0xB", "0xPool">>, <<>>)}

MaxSwapsChoices == {2, 3}

WashInit ==
    /\ CallReady
    /\ decoded_logs \in SeqsUpTo(WashEvents, MaxWashBatch)
    /\ z_threshold = Rat(2, 1)
    /\ min_value = 1000
    /\ min_degree = 1
    /\ max_swaps \in MaxSwapsChoices
    /\ min_price_delta_bps = Rat(50, 1)
    /\ min_notional = NoInt

CallDetectSwapWashTrades ==
    /\ pc = "ready"
    /\ findings' = detect_swap_wash_trades(decoded_logs, max_swaps)
    /\ pc' = "done"
    /\ UNCHANGED <<scoreVars, decoded_logs, optionVars, position, prev_price, callVars>>

SpecWash == WashInit /\ [][CallDetectSwapWashTrades]_vars

----------------------------------------------------------------------------
(* Claims about compute_address_centrality and detect_swap_wash_trades *)

ValidTransfer(e) ==
    Truthy(_extract_transfer(e).from_addr) /\ Truthy(_extract_transfer(e).to_addr)

\* the distinct lower-cased counterparties of the lower-cased address a
Counterparties(a) ==
    {Lower(_extract_transfer(decoded_logs[i]).to_addr) :
        i \in {j \in 1..Len(decoded_logs) :
                  /\ ValidTransfer(decoded_logs[j])
                  /\ Lower(_extract_transfer(decoded_logs[j]).from_addr) = a}}
    \cup
    {Lower(_extract_transfer(decoded_logs[i]).from_addr) :
        i \in {j \in 1..Len(decoded_logs) :
                  /\ ValidTransfer(decoded_logs[j])
                  /\ Lower(_extract_transfer(decoded_logs[j]).to_addr) = a}}

\* C8: compute_address_centrality treats letter-case variants of an address
\* as one node: a record's degree is the number of distinct lower-cased
\* counterparties of its address, no two records differ only in letter case,
\* and an address without a valid event is not in the output.
C8_CentralityCaseInsensitive ==
    pc = "done" =>
        /\ \A k \in 1..Len(findings) :
              /\ findings[k].degree = Cardinality(Counterparties(Lower(findings[k].address)))
              /\ Counterparties(Lower(findings[k].address)) # {}
        /\ \A k, l \in 1..Len(findings) :
              Lower(findings[k].address) = Lower(findings[l].address) => k = l

Counted(e) == Len(e.indexed) >= 3 /\ Truthy(e.indexed[1]) /\ Truthy(e.indexed[2])

ParticipantPairs == {{x, y} : x, y \in {"0xa", "0xb", "0xc"}}

PairCount(P) ==
    Cardinality({i \in 1..Len(decoded_logs) :
        /\ Counted(decoded_logs[i])
        /\ {Lower(decoded_logs[i].indexed[1]), Lower(decoded_logs[i].indexed[2])} = P})

\* four swaps alternating between 0xA and 0xB (in any letter case), max_swaps 3
Scenario3 ==
    /\ Len(decoded_logs) = 4
    /\ max_swaps = 3
    /\ \A i \in 1..4 :
          /\ Counted(decoded_logs[i])
          /\ Lower(decoded_logs[i].indexed[1]) = (IF i % 2 = 1 THEN "0xa" ELSE "0xb")
          /\ Lower(decoded_logs[i].indexed[2]) = (IF i % 2 = 1 THEN "0xb" ELSE "0xa")

\* C9: detect_swap_wash_trades counts events per unordered lower-cased pair,
\* (A->B) and (B->A) sharing one counter, and emits exactly one finding,
\* carrying the count, for each pair with count >= max_swaps and none for the
\* others; four alternating swaps with max_swaps = 3 give one finding with
\* swaps = 4.
C9_WashPairsSymmetric ==
    pc = "done" =>
        /\ \A P \in ParticipantPairs :
              LET hits == {k \in 1..Len(findings) : SeqToSet(findings[k].participants) = P}
              IN IF PairCount(P) >= max_swaps
                 THEN /\ Cardinality(hits) = 1
                      /\ \A k \in hits : findings[k].swaps = PairCount(P)
                 ELSE hits = {}
        /\ Scenario3 => (Len(findings) = 1 /\ findings[1].swaps = 4)

\* the alternating batch after the call, with its single finding
C9_Witness ==
    /\ pc = "done"
    /\ Scenario3
    /\ \E i \in 1..4 : decoded_logs[i].indexed[1] = "0xb"
    /\ Len(findings) = 1
    /\ findings[1].swaps = 4

----------------------------------------------------------------------------
(* analyze_swap_price_impact, one loop iteration per step *)

BPS == 10000

\* _maybe_hex_to_int(x) if isinstance(x, str) else x
DecodeField(raw) ==
    IF raw.t = "str" THEN _maybe_hex_to_int(raw)
    ELSE IF raw.t = "none" THEN NoInt
    ELSE Some(raw.n)

\* the event passes every "continue" ahead of the price computation
ValidSwap(event, mn) ==
    /\ Len(event.body) >= 4
    /\ Len(event.indexed) >= 3
    /\ \A k \in 1..4 : DecodeField(event.body[k]) # NoInt
    /\ ~(mn # NoInt /\
         Max(Abs(DecodeField(event.body[1])[1]), Abs(DecodeField(event.body[2])[1])) < mn[1])
    /\ DecodeField(event.body[4])[1] # 0

\* the ratio taken without squaring
X96Price_NotSquared(sqrt_price_x96) == sqrt_price_x96

\* (sqrt_price_x96 / (1 << 96)) ** 2, in units of 2^-192
X96Price(sqrt_price_x96) == sqrt_price_x96 * sqrt_price_x96

EventPrice(event) == X96Price(DecodeField(event.body[3])[1])

\* (delta / prev_price) * 10_000 as a rational
BpsDelta(price, prev) == Rat(Abs(price - prev) * BPS, prev)

\* bps_delta >= min_price_delta_bps
BpsGe(bps, t) == bps.num * t.den >= t.num * bps.den

NextEvent == decoded_logs[position + 1]

Scanning == pc = "ready" /\ position < Len(decoded_logs)

\* a skipped event that also forgets the running price
SkipEvent_ResetsPrice ==
    /\ Scanning
    /\ ~ValidSwap(NextEvent, min_notional)
    /\ position' = position + 1
    /\ prev_price' = NoInt
    /\ UNCHANGED <<scoreVars, decoded_logs, optionVars, findings, pc, callVars>>

SkipEvent ==
    /\ Scanning
    /\ ~ValidSwap(NextEvent, min_notional)
    /\ position' = position + 1
    /\ UNCHANGED <<scoreVars, decoded_logs, optionVars, prev_price, findings, pc, callVars>>

SeedPrice ==
    /\ Scanning
    /\ ValidSwap(NextEvent, min_notional)
    /\ prev_price = NoInt
    /\ prev_price' = Some(EventPrice(NextEvent))
    /\ position' = position + 1
    /\ UNCHANGED <<scoreVars, decoded_logs, optionVars, findings, pc, callVars>>

\* a zero previous price taken into the comparison all the same
ReseedZeroPrice_Compares ==
    /\ Scanning
    /\ ValidSwap(NextEvent, min_notional)
    /\ prev_price = Some(0)
    /\ LET price == EventPrice(NextEvent)
           bps_delta == BpsDelta(price, prev_price[1])
       IN findings' =
              IF BpsGe(bps_delta, min_price_delta_bps)
              THEN Append(findings,
                       [type |-> "price_impact",
                        price |-> price,
                        previous_price |-> prev_price[1],
                        delta_bps |-> bps_delta,
                        amount0 |-> DecodeField(NextEvent.body[1])[1],
                        amount1 |-> DecodeField(NextEvent.body[2])[1],
                        liquidity |-> DecodeField(NextEvent.body[4])[1],
                        recipient |-> NextEvent.indexed[2]])
              ELSE findings
    /\ prev_price' = Some(EventPrice(NextEvent))
    /\ position' = position + 1
    /\ UNCHANGED <<scoreVars, decoded_logs, optionVars, pc, callVars>>

ReseedZeroPrice ==
    /\ Scanning
    /\ ValidSwap(NextEvent, min_notional)
    /\ prev_price = Some(0)
    /\ prev_price' = Some(EventPrice(NextEvent))
    /\ position' = position + 1
    /\ UNCHANGED <<scoreVars, decoded_logs, optionVars, findings, pc, callVars>>

\* the comparison with prev_price moved on only when the event is flagged
ComparePrice_UpdateOnFlagOnly ==
    /\ Scanning
    /\ ValidSwap(NextEvent, min_notional)
    /\ prev_price # NoInt
    /\ prev_price # Some(0)
    /\ LET price == EventPrice(NextEvent)
           bps_delta == BpsDelta(price, prev_price[1])
       IN IF BpsGe(bps_delta, min_price_delta_bps)
          THEN /\ findings' =
                     Append(findings,
                         [type |-> "price_impact",
                          price |-> price,
                          previous_price |-> prev_price[1],
                          delta_bps |-> bps_delta,
                          amount0 |-> DecodeField(NextEvent.body[1])[1],
                          amount1 |-> DecodeField(NextEvent.body[2])[1],
                          liquidity |-> DecodeField(NextEvent.body[4])[1],
                          recipient |-> NextEvent.indexed[2]])
               /\ prev_price' = Some(price)
          ELSE UNCHANGED <<findings, prev_price>>
    /\ position' = position + 1
    /\ UNCHANGED <<scoreVars, decoded_logs, optionVars, pc, callVars>>

ComparePrice ==
    /\ Scanning
    /\ ValidSwap(NextEvent, min_notional)
    /\ prev_price # NoInt
    /\ prev_price # Some(0)
    /\ LET price == EventPrice(NextEvent)
           bps_delta == BpsDelta(price, prev_price[1])
       IN /\ findings' =
                IF BpsGe(bps_delta, min_price_delta_bps)
                THEN Append(findings,
                         [type |-> "price_impact",
                          price |-> price,
                          previous_price |-> prev_price[1],
                          delta_bps |-> bps_delta,
                          amount0 |-> DecodeField(NextEvent.body[1])[1],
                          amount1 |-> DecodeField(NextEvent.body[2])[1],
                          liquidity |-> DecodeField(NextEvent.body[4])[1],
                          recipient |-> NextEvent.indexed[2]])
                ELSE findings
          /\ prev_price' = Some(price)
    /\ position' = position + 1
    /\ UNCHANGED <<scoreVars, decoded_logs, optionVars, pc, callVars>>

ReturnFindings ==
    /\ pc = "ready"
    /\ position = Len(decoded_logs)
    /\ pc' = "done"
    /\ UNCHANGED <<scoreVars, decoded_logs, optionVars, position, prev_price, findings, callVars>>

MaxSwapBatch == 3

SwapEvent(ix, a0, a1, sq, lq) == Event(ix, <<a0, a1, sq, lq>>)

SwapTopics == <<"0xA", "0xB", "0xPool">>

\* swaps at sqrtPriceX96 100, 200 (as a hex string), 201 and 0, and events
\* the scan skips: no liquidity, an undecodable price, a short body, two
\* indexed values only, and amounts below a minimum notional of 1000
SwapEvents ==
    {SwapEvent(SwapTopics, IntVal(5000), IntVal(-7000), IntVal(100), IntVal(1000)),
     SwapEvent(SwapTopics, IntVal(5000), IntVal(-7000), StrVal("0xc8"), IntVal(1000)),
     SwapEvent(SwapTopics, IntVal(5000), IntVal(-7000), IntVal(201), IntVal(1000)),
     SwapEvent(SwapTopics, IntVal(5000), IntVal(-7000), IntVal(0), IntVal(1000)),
     SwapEvent(SwapTopics, IntVal(5000), IntVal(-7000), IntVal(201), IntVal(0)),
     SwapEvent(SwapTopics, IntVal(5000), IntVal(-7000), StrVal("junk"), IntVal(1000)),
     Event(SwapTopics, <<IntVal(5000), IntVal(-7000), IntVal(201)>>),
     SwapEvent(<<"0xA", "0xB">>, IntVal(5000), IntVal(-7000), IntVal(201), IntVal(1000)),
     SwapEvent(SwapTopics, IntVal(10), IntVal(-20), IntVal(201), IntVal(1000))}

BpsThresholds == {Rat(50, 1), Rat(30000, 1)}

NotionalChoices == {NoInt, Some(1000)}

PriceImpactInit ==
    /\ CallReady
    /\ decoded_logs \in SeqsUpTo(SwapEvents, MaxSwapBatch)
    /\ z_threshold = Rat(2, 1)
    /\ min_value = 1000
    /\ min_degree = 1
    /\ max_swaps = 3
    /\ min_price_delta_bps \in BpsThresholds
    /\ min_notional \in NotionalChoices

PriceImpactNext ==
    \/ SkipEvent
    \/ SeedPrice
    \/ ReseedZeroPrice
    \/ ComparePrice
    \/ ReturnFindings

SpecPriceImpact == PriceImpactInit /\ [][PriceImpactNext]_vars

----------------------------------------------------------------------------
(* Claims about analyze_swap_price_impact *)

SqrtPriceOf(e) == DecodeField(e.body[3])[1]

ValidBefore(k) == {i \in 1..k : ValidSwap(decoded_logs[i], min_notional)}

\* sqrtPriceX96 of the last valid event among the first k
LastValidSqrt(k) ==
    LET last == CHOOSE i \in ValidBefore(k) : \A j \in ValidBefore(k) : j <= i
    IN SqrtPriceOf(decoded_logs[last])

\* |price - previous| / previous * 10000 >= min_price_delta_bps for squared
\* sqrt prices s and sp, sp # 0 (the factor 2^-192 cancels)
ImpactAtLeast(s, sp) ==
    BPS * min_price_delta_bps.den * Abs(s * s - sp * sp)
        >= min_price_delta_bps.num * sp * sp

\* three valid swaps at sqrtPriceX96 x, x and 2x, default threshold of 50 bps
Scenario2 ==
    /\ Len(decoded_logs) = 3
    /\ min_price_delta_bps = Rat(50, 1)
    /\ ValidBefore(3) = 1..3
    /\ SqrtPriceOf(decoded_logs[1]) # 0
    /\ SqrtPriceOf(decoded_logs[2]) = SqrtPriceOf(decoded_logs[1])
    /\ SqrtPriceOf(decoded_logs[3]) = 2 * SqrtPriceOf(decoded_logs[1])

\* C10: a valid swap event after the first valid one, met with a non-zero
\* previous price, gets a price_impact finding iff
\* |price - previous_price| / previous_price * 10000 >= min_price_delta_bps,
\* price being (sqrtPriceX96 / 2^96)^2; two events of equal sqrtPriceX96 give
\* no finding and a third at double the sqrtPriceX96 gives exactly one, with
\* delta_bps = 30000.
C10_PriceImpactIff ==
    /\ [][(/\ Scanning
           /\ ValidSwap(NextEvent, min_notional)
           /\ ValidBefore(position) # {}
           /\ LastValidSqrt(position) # 0)
          => IF ImpactAtLeast(SqrtPriceOf(NextEvent), LastValidSqrt(position))
             THEN /\ Len(findings') = Len(findings) + 1
                  /\ SubSeq(findings', 1, Len(findings)) = findings
                  /\ findings'[Len(findings')].type = "price_impact"
             ELSE findings' = findings]_vars
    /\ [](Scenario2 =>
             /\ position <= 2 => findings = <<>>
             /\ position = 3 =>
                   /\ Len(findings) = 1
                   /\ findings[1].delta_bps.num = 30000 * findings[1].delta_bps.den)

\* the scenario batch scanned to its end, the doubling flagged
C10_Witness ==
    /\ pc = "done"
    /\ Scenario2
    /\ Len(findings) = 1
    /\ findings[1].price = 4 * findings[1].previous_price

----------------------------------------------------------------------------
(* detect_suspicious_patterns and _filter_suspicious_patterns *)

\* the findings of one event with the second check made an "elif"
PatternsOf_Exclusive(event) ==
    LET tr == _extract_transfer(event)
    IN IF Truthy(tr.from_addr) /\ Truthy(tr.to_addr)
          /\ Lower(tr.from_addr) = Lower(tr.to_addr)
       THEN <<[type |-> "self_transfer", address |-> tr.from_addr, value |-> tr.value]>>
       ELSE IF tr.value = Some(0)
       THEN <<[type |-> "zero_value", from |-> tr.from_addr, to |-> tr.to_addr]>>
       ELSE <<>>

\* the findings of one event: the two "if" blocks of the loop body
PatternsOf(event) ==
    LET tr == _extract_transfer(event)
        self_transfer ==
            IF Truthy(tr.from_addr) /\ Truthy(tr.to_addr)
               /\ Lower(tr.from_addr) = Lower(tr.to_addr)
            THEN <<[type |-> "self_transfer", address |-> tr.from_addr, value |-> tr.value]>>
            ELSE <<>>
        zero_value ==
            IF tr.value = Some(0)
            THEN <<[type |-> "zero_value", from |-> tr.from_addr, to |-> tr.to_addr]>>
            ELSE <<>>
    IN self_transfer \o zero_value

RECURSIVE detect_suspicious_patterns(_)
detect_suspicious_patterns(logs) ==
    IF logs = <<>> THEN <<>>
    ELSE PatternsOf(Head(logs)) \o detect_suspicious_patterns(Tail(logs))

_filter_suspicious_patterns(patterns, keep_self, keep_zero) ==
    SelectSeq(patterns,
        LAMBDA finding :
            IF finding.type = "self_transfer" /\ keep_self THEN TRUE
            ELSE finding.type = "zero_value" /\ keep_zero)

(* Specification SpecPatterns: the detector, then the caller's filter *)

MaxPatternBatch == 2

\* a self-transfer, a self-transfer in two letter cases carrying 0, a zero
\* transfer given as a hex string, a plain transfer, an event with no
\* receiver and no value, an undecodable value, and empty endpoints with 0
PatternEvents ==
    {Event(<<"0xA", "0xA">>, <<IntVal(1000)>>),
     Event(<<"0xA", "0xa">>, <<IntVal(0)>>),
     Event(<<"0xA", "0xB">>, <<StrVal("0x0")>>),
     Event(<<"0xA", "0xB">>, <<IntVal(1000)>>),
     Event(<<"0xA">>, <<>>),
     Event(<<"0xB", "0xB">>, <<StrVal("junk")>>),
     Event(<<"", "">>, <<IntVal(0)>>)}

PatternsInit ==
    /\ ScoreIdle
    /\ OrchIdle
    /\ SanitizeIdle
    /\ InterleaveIdle
    /\ PageIdle
    /\ OptionsAtRest
    /\ decoded_logs \in SeqsUpTo(PatternEvents, MaxPatternBatch)
    /\ position = 0
    /\ prev_price = NoInt
    /\ findings = <<>>
    /\ pc = "ready"
    /\ transactions = <<>>
    /\ watchlist = <<>>
    /\ large_value_threshold = 1000
    /\ include_self_transfers \in BOOLEAN
    /\ include_zero_value \in BOOLEAN
    /\ filtered_patterns = <<>>

CallDetectSuspiciousPatterns ==
    /\ pc = "ready"
    /\ findings' = detect_suspicious_patterns(decoded_logs)
    /\ pc' = "detected"
    /\ UNCHANGED <<scoreVars, decoded_logs, optionVars, position, prev_price, callVars>>

CallFilterSuspiciousPatterns ==
    /\ pc = "detected"
    /\ filtered_patterns' =
           _filter_suspicious_patterns(findings, include_self_transfers, include_zero_value)
    /\ pc' = "done"
    /\ UNCHANGED <<scoreVars, decoded_logs, optionVars, position, prev_price, findings,
                   transactions, watchlist, large_value_threshold,
                   include_self_transfers, include_zero_value, orchVars, sanitizeVars, interleaveVars, pageVars>>

PatternsNext == CallDetectSuspiciousPatterns \/ CallFilterSuspiciousPatterns

SpecPatterns == PatternsInit /\ [][PatternsNext]_vars

(* Claims about the pattern detector and its filter *)

IsSelfTransfer(e) ==
    /\ Len(e.indexed) >= 2
    /\ e.indexed[1] \notin {NONE, ""}
    /\ e.indexed[2] \notin {NONE, ""}
    /\ Lower(e.indexed[1]) = Lower(e.indexed[2])

IsZeroValue(e) == PrimaryValue(e) = Some(0)

\* the types of the findings the batch should give, event by event
RECURSIVE ExpectedTypes(_)
ExpectedTypes(logs) ==
    IF logs = <<>> THEN <<>>
    ELSE (IF IsSelfTransfer(Head(logs)) THEN <<"self_transfer">> ELSE <<>>)
         \o (IF IsZeroValue(Head(logs)) THEN <<"zero_value">> ELSE <<>>)
         \o ExpectedTypes(Tail(logs))

TypesOf(fs) == [i \in 1..Len(fs) |-> fs[i].type]

\* C18: detect_suspicious_patterns emits, per event and in batch order, a
\* self_transfer finding iff sender and receiver are both present and equal
\* case-insensitively and a zero_value finding iff the normalized value is
\* exactly 0, the two checks being independent (0, 1 or 2 findings per
\* event); _filter_suspicious_patterns keeps the self_transfer findings iff
\* include_self_transfers and the zero_value findings iff include_zero_value,
\* neither flag touching the other type.
C18_PatternsAndFilter ==
    /\ pc \in {"detected", "done"} => TypesOf(findings) = ExpectedTypes(decoded_logs)
    /\ pc = "done" =>
          filtered_patterns =
              Pick(findings, {i \in 1..Len(findings) :
                  \/ (findings[i].type = "self_transfer" /\ include_self_transfers)
                  \/ (findings[i].type = "zero_value" /\ include_zero_value)})
    /\ \A s, z \in BOOLEAN :
          \E e \in PatternEvents : IsSelfTransfer(e) = s /\ IsZeroValue(e) = z

\* an event with both findings next to an event with none, filtered with the
\* self-transfer flag on and the zero-value flag off
C18_Witness ==
    /\ pc = "done"
    /\ Len(decoded_logs) = 2
    /\ IsSelfTransfer(decoded_logs[1]) /\ IsZeroValue(decoded_logs[1])
    /\ ~IsSelfTransfer(decoded_logs[2]) /\ ~IsZeroValue(decoded_logs[2])
    /\ include_self_transfers /\ ~include_zero_value
    /\ Len(findings) = 2
    /\ Len(filtered_patterns) = 1
    /\ filtered_patterns[1].type = "self_transfer"

----------------------------------------------------------------------------
(* label_transaction_risk *)

\* a transaction dict; an absent key and a None value are both NONE
Tx(h, sender, sender_, recipient, v, data) ==
    [hash |-> h, from |-> sender, from_ |-> sender_, to |-> recipient, value |-> v,
     input |-> data]

\* the watchlist taken as given, letter case kept
WatchSet_CaseSensitive(wl) == {wl[i] : i \in 1..Len(wl)}

\* {addr.lower() for addr in (watchlist or [])}
WatchSet(wl) == {Lower(wl[i]) : i \in 1..Len(wl)}

RISK_FLAGS == {"sender_watchlist", "recipient_watchlist", "large_value"}

\* the loop body: {**tx, "risk_flags": risk_flags}
LabelOne(tx, watch, threshold) ==
    LET value == _maybe_hex_to_int(tx.value)
        sender == IF Truthy(tx.from) THEN tx.from ELSE tx.from_
        recipient == tx.to
        risk_flags ==
            (IF Truthy(sender) /\ Lower(sender) \in watch
             THEN <<"sender_watchlist">> ELSE <<>>)
            \o (IF Truthy(recipient) /\ Lower(recipient) \in watch
                THEN <<"recipient_watchlist">> ELSE <<>>)
            \o (IF value # NoInt /\ value[1] >= threshold
                THEN <<"large_value">> ELSE <<>>)
    IN [k \in DOMAIN tx \cup {"risk_flags"} |->
           IF k = "risk_flags" THEN risk_flags ELSE tx[k]]

label_transaction_risk(txs, wl, threshold) ==
    [i \in 1..Len(txs) |-> LabelOne(txs[i], WatchSet(wl), threshold)]

(* Specification SpecLabel: one call on a drawn transaction list *)

MaxTxBatch == 2

\* transactions told apart by sender (under "from" or "from_", in either
\* letter case), recipient, value (native, hex, decimal, undecodable, None)
\* and call data (a selector and arguments, a bare "0x", none)
TxUniverse ==
    {Tx("0x01", "0xa", NONE, "0xA", StrVal("0x3e8"), "0xA9059CBB0001"),
     Tx("0x02", "0xA", NONE, "0xC", IntVal(1000000), "0x"),
     Tx("0x03", "0xB", NONE, "0xa", StrVal("1000"), "0xA9059CBB0001"),
     Tx("0x04", "0xB", NONE, "0xC", IntVal(1000), NONE),
     Tx("0x05", "0xA", NONE, "0xA", StrVal("junk"), "0x"),
     Tx("0x06", NONE, "0xA", "0xC", IntVal(0), NONE),
     Tx("0x07", "0xB", NONE, "0xA", NoneVal, "0x"),
     Tx("0x08", "0xB", "0xA", NONE, StrVal("0"), "0x")}

Watchlists == {<<>>, <<"0xA">>}

ValueThresholds == {1000, 1000000}

LabelInit ==
    /\ ScoreIdle
    /\ OrchIdle
    /\ SanitizeIdle
    /\ InterleaveIdle
    /\ PageIdle
    /\ OptionsAtRest
    /\ decoded_logs = <<>>
    /\ position = 0
    /\ prev_price = NoInt
    /\ findings = <<>>
    /\ pc = "ready"
    /\ transactions \in SeqsUpTo(TxUniverse, MaxTxBatch)
    /\ watchlist \in Watchlists
    /\ large_value_threshold \in ValueThresholds
    /\ include_self_transfers = TRUE
    /\ include_zero_value = TRUE
    /\ filtered_patterns = <<>>

CallLabelTransactionRisk ==
    /\ pc = "ready"
    /\ findings' = label_transaction_risk(transactions, watchlist, large_value_threshold)
    /\ pc' = "done"
    /\ UNCHANGED <<scoreVars, decoded_logs, optionVars, position, prev_price, callVars>>

SpecLabel == LabelInit /\ [][CallLabelTransactionRisk]_vars

(* Claims about label_transaction_risk *)

SenderOf(tx) == IF tx.from \notin {NONE, ""} THEN tx.from ELSE tx.from_

\* a is a non-empty address that some entry of wl equals up to letter case
OnWatchlist(a, wl) ==
    a \notin {NONE, ""} /\ \E i \in 1..Len(wl) : Lower(wl[i]) = Lower(a)

IsLargeValue(tx, threshold) ==
    _maybe_hex_to_int(tx.value) # NoInt /\ _maybe_hex_to_int(tx.value)[1] >= threshold

\* C17: label_transaction_risk gives each transaction exactly the flags that
\* apply: sender_watchlist iff its sender is on the watchlist up to letter
\* case, recipient_watchlist iff its recipient is, large_value iff its value
\* parses and is >= large_value_threshold; all eight subsets of the three
\* flags occur; an unparsable value never gives large_value; every other
\* field of the transaction is returned unchanged.
C17_RiskFlagsExact ==
    /\ pc = "done" =>
          /\ Len(findings) = Len(transactions)
          /\ \A i \in 1..Len(transactions) :
                LET tx == transactions[i]
                    flags == findings[i].risk_flags
                IN /\ SeqToSet(flags) \subseteq RISK_FLAGS
                   /\ Cardinality(SeqToSet(flags)) = Len(flags)
                   /\ ("sender_watchlist" \in SeqToSet(flags)) = OnWatchlist(SenderOf(tx), watchlist)
                   /\ ("recipient_watchlist" \in SeqToSet(flags)) = OnWatchlist(tx.to, watchlist)
                   /\ ("large_value" \in SeqToSet(flags)) = IsLargeValue(tx, large_value_threshold)
                   /\ _maybe_hex_to_int(tx.value) = NoInt => "large_value" \notin SeqToSet(flags)
                   /\ DOMAIN findings[i] = DOMAIN tx \cup {"risk_flags"}
                   /\ \A k \in DOMAIN tx : findings[i][k] = tx[k]
    /\ \A S \in SUBSET RISK_FLAGS :
          \E tx \in TxUniverse :
              SeqToSet(label_transaction_risk(<<tx>>, <<"0xA">>, 1000)[1].risk_flags) = S

\* a transaction with all three flags, its sender matched across letter case
\* and its value given in hex, next to an unflagged one
C17_Witness ==
    /\ pc = "done"
    /\ Len(transactions) = 2
    /\ watchlist = <<"0xA">>
    /\ transactions[1].from = "0xa"
    /\ transactions[1].value = StrVal("0x3e8")
    /\ findings[1].risk_flags = <<"sender_watchlist", "recipient_watchlist", "large_value">>
    /\ findings[2].risk_flags = <<>>
    /\ findings[2].hash = transactions[2].hash

----------------------------------------------------------------------------
(* summarize_counterparties *)

\* the address compared as it is written
LowerOrNone_Raw(a) == a

\* x.lower() if isinstance(x, str) else x
LowerOrNone(a) == IF a = NONE THEN NONE ELSE Lower(a)

WatchedEntry(a) ==
    [address |-> a, incoming_count |-> 0, incoming_value |-> 0,
     outgoing_count |-> 0, outgoing_value |-> 0]

\* counterparties.setdefault(addr, {...}) followed by the two increments; the
\* ledger is kept as a list in key insertion order
AddCounterparty(ledger, addr, value) ==
    IF \E i \in 1..Len(ledger) : ledger[i].address = addr
    THEN [i \in 1..Len(ledger) |->
             IF ledger[i].address = addr
             THEN [ledger[i] EXCEPT !.interactions = @ + 1, !.total_value = @ + value]
             ELSE ledger[i]]
    ELSE Append(ledger, [address |-> addr, interactions |-> 1, total_value |-> value])

\* the loop body with every other endpoint entered in the ledger, watched
\* or not
SummarizeEvent_AnyCounterparty(st, event, watched) ==
    LET tr == _extract_transfer(event)
        value == IF tr.value = NoInt THEN 0 ELSE tr.value[1]
        sender_l == LowerOrNone(tr.from_addr)
        receiver_l == LowerOrNone(tr.to_addr)
        outgoing ==
            IF sender_l \in watched
            THEN [summary |-> [st.summary EXCEPT
                                  ![sender_l] = [@ EXCEPT !.outgoing_count = @ + 1,
                                                          !.outgoing_value = @ + value]],
                  ledger |-> IF Truthy(receiver_l)
                             THEN AddCounterparty(st.ledger, receiver_l, value)
                             ELSE st.ledger]
            ELSE st
    IN IF receiver_l \in watched
       THEN [summary |-> [outgoing.summary EXCEPT
                             ![receiver_l] = [@ EXCEPT !.incoming_count = @ + 1,
                                                       !.incoming_value = @ + value]],
             ledger |-> IF Truthy(sender_l)
                        THEN AddCounterparty(outgoing.ledger, sender_l, value)
                        ELSE outgoing.ledger]
       ELSE outgoing

\* one iteration of the loop over the batch; st is (watched_summary,
\* counterparties) and watched the set of lower-cased watched addresses
SummarizeEvent(st, event, watched) ==
    LET tr == _extract_transfer(event)
        value == IF tr.value = NoInt THEN 0 ELSE tr.value[1]
        sender_l == LowerOrNone(tr.from_addr)
        receiver_l == LowerOrNone(tr.to_addr)
        outgoing ==
            IF sender_l \in watched
            THEN [summary |-> [st.summary EXCEPT
                                  ![sender_l] = [@ EXCEPT !.outgoing_count = @ + 1,
                                                          !.outgoing_value = @ + value]],
                  ledger |-> IF Truthy(receiver_l) /\ receiver_l \notin watched
                             THEN AddCounterparty(st.ledger, receiver_l, value)
                             ELSE st.ledger]
            ELSE st
    IN IF receiver_l \in watched
       THEN [summary |-> [outgoing.summary EXCEPT
                             ![receiver_l] = [@ EXCEPT !.incoming_count = @ + 1,
                                                       !.incoming_value = @ + value]],
             ledger |-> IF Truthy(sender_l) /\ sender_l \notin watched
                        THEN AddCounterparty(outgoing.ledger, sender_l, value)
                        ELSE outgoing.ledger]
       ELSE outgoing

RECURSIVE SummarizeLoop(_, _, _)
SummarizeLoop(st, logs, watched) ==
    IF logs = <<>> THEN st
    ELSE SummarizeLoop(SummarizeEvent(st, Head(logs), watched), Tail(logs), watched)

\* sorted(counterparties, key=total_value, reverse=True): stable, descending
RECURSIVE SortByTotalValueDesc(_)
SortByTotalValueDesc(s) ==
    IF s = <<>> THEN <<>>
    ELSE LET front == SortByTotalValueDesc(SubSeq(s, 1, Len(s) - 1))
             last == s[Len(s)]
             k == Cardinality({i \in 1..Len(front) : front[i].total_value >= last.total_value})
         IN SubSeq(front, 1, k) \o <<last>> \o SubSeq(front, k + 1, Len(front))

\* the orders in which a set, or a dict built from one, can be iterated
Orderings(S) ==
    {s \in [1..Cardinality(S) -> S] : \A i, j \in 1..Cardinality(S) : s[i] = s[j] => i = j}

\* the returned dict, the watched entries listed in the order given
summarize_counterparties(logs, watched_in, order) ==
    LET watched == {Lower(watched_in[i]) : i \in 1..Len(watched_in)}
        st == SummarizeLoop([summary |-> [a \in watched |-> WatchedEntry(a)], ledger |-> <<>>],
                            logs, watched)
    IN [watched |-> [i \in 1..Len(order) |-> st.summary[order[i]]],
        counterparties |-> SortByTotalValueDesc(st.ledger)]

(* Specification SpecCounterparty: one call on a drawn batch and watchlist *)

MaxLedgerBatch == 2

\* transfers among A (in both letter cases), B and C, with native, hex,
\* undecodable and None values, a self-transfer, and an event with no receiver
LedgerEvents ==
    {Event(<<"0xA", "0xB">>, <<IntVal(1000)>>),
     Event(<<"0xB", "0xa">>, <<StrVal("0x3e8")>>),
     Event(<<"0xa", "0xC">>, <<IntVal(1000000)>>),
     Event(<<"0xC", "0xA">>, <<NoneVal>>),
     Event(<<"0xA", "0xA">>, <<IntVal(1000)>>),
     Event(<<"0xA", "0xC">>, <<StrVal("junk")>>),
     Event(<<"0xC">>, <<IntVal(1000)>>)}

CounterpartyInit ==
    /\ CallsIdle
    /\ OptionsAtRest
    /\ watched_addresses \in SeqsUpTo(WatchUniverse, MaxWatched)
    /\ anomalies = <<>>
    /\ large_transfers = <<>>
    /\ centrality = <<>>
    /\ scores = <<>>
    /\ decoded_logs \in SeqsUpTo(LedgerEvents, MaxLedgerBatch)
    /\ position = 0
    /\ prev_price = NoInt
    /\ findings = <<>>
    /\ pc = "ready"

CallSummarizeCounterparties ==
    /\ pc = "ready"
    /\ \E order \in Orderings({Lower(watched_addresses[i]) : i \in 1..Len(watched_addresses)}) :
          findings' = summarize_counterparties(decoded_logs, watched_addresses, order)
    /\ pc' = "done"
    /\ UNCHANGED <<scoreVars, decoded_logs, optionVars, position, prev_price, callVars>>

SpecCounterparty == CounterpartyInit /\ [][CallSummarizeCounterparties]_vars

(* Claims about summarize_counterparties *)

\* the events of the batch with w as sender, as receiver (w lower-cased)
SentBy(w) ==
    {k \in 1..Len(decoded_logs) :
        /\ Len(decoded_logs[k].indexed) >= 1
        /\ Lower(decoded_logs[k].indexed[1]) = w}

ReceivedBy(w) ==
    {k \in 1..Len(decoded_logs) :
        /\ Len(decoded_logs[k].indexed) >= 2
        /\ Lower(decoded_logs[k].indexed[2]) = w}

ValueOrZero(e) == IF Parsable(e) THEN PrimaryValue(e)[1] ELSE 0

Volume(K) == Sum([k \in 1..Len(decoded_logs) |-> IF k \in K THEN ValueOrZero(decoded_logs[k]) ELSE 0])

\* C16: summarize_counterparties returns exactly one watched entry per
\* distinct lower-cased watched address, also for an address with no events
\* (all counts and volumes 0); outgoing_count and incoming_count are the
\* numbers of events with the address as sender and as receiver, letter case
\* ignored; an event whose value is missing or undecodable is counted and adds
\* 0 to the volume.
C16_WatchedSummaryExact ==
    pc = "done" =>
        LET W == findings.watched
            lowered == {Lower(watched_addresses[i]) : i \in 1..Len(watched_addresses)}
        IN /\ {W[i].address : i \in 1..Len(W)} = lowered
           /\ Len(W) = Cardinality(lowered)
           /\ \A i \in 1..Len(W) :
                 /\ W[i].outgoing_count = Cardinality(SentBy(W[i].address))
                 /\ W[i].incoming_count = Cardinality(ReceivedBy(W[i].address))
                 /\ W[i].outgoing_value = Volume(SentBy(W[i].address))
                 /\ W[i].incoming_value = Volume(ReceivedBy(W[i].address))

\* a watched address with two outgoing events, one of them without a
\* decodable value, next to a watched address no event mentions
C16_Witness ==
    /\ pc = "done"
    /\ Len(decoded_logs) = 2
    /\ ~Parsable(decoded_logs[1])
    /\ Parsable(decoded_logs[2])
    /\ \E i, j \in 1..Len(findings.watched) :
          /\ findings.watched[i].outgoing_count = 2
          /\ findings.watched[i].outgoing_value = PrimaryValue(decoded_logs[2])[1]
          /\ findings.watched[i].outgoing_value > 0
          /\ findings.watched[j] = WatchedEntry("0xb")

----------------------------------------------------------------------------
(* analyze_swap_price_impact as one call, and its running price *)

\* the loop over the batch with prev_price and findings carried along
RECURSIVE PriceImpactScan(_, _, _, _, _)
PriceImpactScan(logs, threshold, mn, prev, flagged) ==
    IF logs = <<>> THEN flagged
    ELSE LET event == Head(logs)
         IN IF ~ValidSwap(event, mn)
            THEN PriceImpactScan(Tail(logs), threshold, mn, prev, flagged)
            ELSE IF prev = NoInt \/ prev = Some(0)
            THEN PriceImpactScan(Tail(logs), threshold, mn, Some(EventPrice(event)), flagged)
            ELSE LET price == EventPrice(event)
                     bps_delta == BpsDelta(price, prev[1])
                 IN PriceImpactScan(Tail(logs), threshold, mn, Some(price),
                        IF BpsGe(bps_delta, threshold)
                        THEN Append(flagged,
                                 [type |-> "price_impact",
                                  price |-> price,
                                  previous_price |-> prev[1],
                                  delta_bps |-> bps_delta,
                                  amount0 |-> DecodeField(event.body[1])[1],
                                  amount1 |-> DecodeField(event.body[2])[1],
                                  liquidity |-> DecodeField(event.body[4])[1],
                                  recipient |-> event.indexed[2]])
                        ELSE flagged)

analyze_swap_price_impact(logs, threshold, mn) ==
    PriceImpactScan(logs, threshold, mn, NoInt, <<>>)

\* the batch with the events the scan skips taken out
ValidOnly(logs) == SelectSeq(logs, LAMBDA e : ValidSwap(e, min_notional))

\* C19: an event that analyze_swap_price_impact skips (short body or too few
\* indexed values, an undecodable value, liquidity 0, or amounts below
\* min_notional) leaves previous_price and the findings as they were, and the
\* findings of a batch equal those of the batch with its skipped events removed.
C19_SkippedEventsInert ==
    /\ [][(Scanning /\ ~ValidSwap(NextEvent, min_notional))
          => (prev_price' = prev_price /\ findings' = findings)]_vars
    /\ [](pc = "done" =>
             findings = analyze_swap_price_impact(ValidOnly(decoded_logs),
                                                  min_price_delta_bps, min_notional))

\* a skipped event between two valid ones, the second valid one flagged
\* against the price of the first
C19_Witness ==
    /\ pc = "done"
    /\ Len(decoded_logs) = 3
    /\ ValidBefore(3) = {1, 3}
    /\ Len(findings) = 1
    /\ findings[1].previous_price = EventPrice(decoded_logs[1])
    /\ findings[1].price = EventPrice(decoded_logs[3])

\* C20: throughout the scan previous_price is the price of the most recent
\* valid event, unset before the first; the first valid event seeds it and
\* emits no finding; it moves to the price of every later valid event,
\* flagged or not; every finding's previous_price is the price of the valid
\* event immediately before the flagged one.
C20_PreviousPriceIsLastValid ==
    /\ [](prev_price = IF ValidBefore(position) = {} THEN NoInt
                       ELSE Some(X96Price(LastValidSqrt(position))))
    /\ [][(Scanning /\ ValidSwap(NextEvent, min_notional) /\ ValidBefore(position) = {})
          => (findings' = findings /\ prev_price' = Some(EventPrice(NextEvent)))]_vars
    /\ [][Len(findings') > Len(findings)
          => /\ ValidBefore(position) # {}
             /\ findings'[Len(findings')].previous_price = X96Price(LastValidSqrt(position))
             /\ findings'[Len(findings')].price = EventPrice(NextEvent)]_vars

\* three valid swaps at different prices, the second not flagged and the
\* third flagged against the price of the second
C20_Witness ==
    /\ pc = "done"
    /\ Len(decoded_logs) = 3
    /\ ValidBefore(3) = 1..3
    /\ EventPrice(decoded_logs[1]) # EventPrice(decoded_logs[2])
    /\ Len(findings) = 1
    /\ findings[1].price = EventPrice(decoded_logs[3])
    /\ findings[1].previous_price = EventPrice(decoded_logs[2])

----------------------------------------------------------------------------
(* _sanitize_large_ints *)

JInt(sign, mag) == [t |-> "int", sign |-> sign, mag |-> mag, s |-> <<>>, kids |-> <<>>]

JStr(chars) == [t |-> "str", sign |-> 1, mag |-> <<0, 0, 0, 0>>, s |-> chars, kids |-> <<>>]

JList(items) == [t |-> "list", sign |-> 1, mag |-> <<0, 0, 0, 0>>, s |-> <<>>, kids |-> items]

JDict(values) == [t |-> "dict", sign |-> 1, mag |-> <<0, 0, 0, 0>>, s |-> <<>>, kids |-> values]

\* a > b on magnitudes
MagGt(a, b) == \E i \in 1..4 : a[i] > b[i] /\ \A j \in 1..(i - 1) : a[j] = b[j]

\* limit = 2**63 - 1
INT64_LIMIT == <<0, LIMB - 1, LIMB - 1, LIMB - 1>>

\* the limit of the unsigned range, 2**64 - 1, in place of the signed one
ExceedsLimit_Unsigned(mag) == MagGt(mag, <<1, LIMB - 1, LIMB - 1, LIMB - 1>>)

\* abs(obj) > limit
ExceedsLimit(mag) == MagGt(mag, INT64_LIMIT)

\* divmod(mag, 10), limb by limb from the most significant
DivMod10(mag) ==
    LET c1 == mag[1]
        c2 == (c1 % 10) * LIMB + mag[2]
        c3 == (c2 % 10) * LIMB + mag[3]
        c4 == (c3 % 10) * LIMB + mag[4]
    IN [q |-> <<c1 \div 10, c2 \div 10, c3 \div 10, c4 \div 10>>, r |-> c4 % 10]

DigitChar(d) == <<"0", "1", "2", "3", "4", "5", "6", "7", "8", "9">>[d + 1]

RECURSIVE DecimalDigits(_)
DecimalDigits(mag) ==
    IF mag = <<0, 0, 0, 0>> THEN <<>>
    ELSE Append(DecimalDigits(DivMod10(mag).q), DigitChar(DivMod10(mag).r))

\* str(obj) of an int
PyStr(sign, mag) ==
    IF mag = <<0, 0, 0, 0>> THEN <<"0">>
    ELSE (IF sign < 0 THEN <<"-">> ELSE <<>>) \o DecimalDigits(mag)

RECURSIVE _sanitize_large_ints(_)
_sanitize_large_ints(o) ==
    IF o.t = "dict"
    THEN JDict([i \in 1..Len(o.kids) |-> _sanitize_large_ints(o.kids[i])])
    ELSE IF o.t = "list"
    THEN JList([i \in 1..Len(o.kids) |-> _sanitize_large_ints(o.kids[i])])
    ELSE IF o.t = "int" /\ ExceedsLimit(o.mag)
    THEN JStr(PyStr(o.sign, o.mag))
    ELSE o

(* Specification SpecSanitize: an object nested step by step, then the call *)

MaxNesting == 3

\* 1000, 2^63 - 1, 2^63, -2^63, -(2^63 - 1), 10^20 and a str
JLeaves ==
    {JInt(1, <<0, 0, 0, 1000>>),
     JInt(1, INT64_LIMIT),
     JInt(1, <<1, 0, 0, 0>>),
     JInt(-1, <<1, 0, 0, 0>>),
     JInt(-1, INT64_LIMIT),
     JInt(1, <<10, 1765847, 1141528, 1048576>>),
     JStr(<<"0", "x", "A">>)}

\* what may stand before and after the object inside the container put
\* around it
Neighbours ==
    {<<<<>>, <<>>>>,
     <<<<JInt(1, <<1, 0, 0, 0>>)>>, <<>>>>,
     <<<<JNone>>, <<JInt(1, <<0, 0, 0, 1000>>)>>>>}

\* the greatest element of a set of naturals, 0 for the empty set
MaxOf(S) == IF S = {} THEN 0 ELSE CHOOSE m \in S : \A x \in S : x <= m

\* how deep dicts and lists are nested in o
RECURSIVE Nesting(_)
Nesting(o) ==
    IF o.t \in {"dict", "list"}
    THEN 1 + MaxOf({Nesting(o.kids[i]) : i \in 1..Len(o.kids)})
    ELSE 0

SanitizeInit ==
    /\ ScoreIdle
    /\ LabelIdle
    /\ OrchIdle
    /\ InterleaveIdle
    /\ PageIdle
    /\ OptionsAtRest
    /\ decoded_logs = <<>>
    /\ position = 0
    /\ prev_price = NoInt
    /\ findings = <<>>
    /\ pc = "ready"
    /\ obj \in JLeaves
    /\ sanitized = JNone

\* the object becomes a value of a dict or an item of a list
Nest(kind, around) ==
    /\ pc = "ready"
    /\ Nesting(obj) < MaxNesting
    /\ obj' = [t |-> kind, sign |-> 1, mag |-> <<0, 0, 0, 0>>, s |-> <<>>,
               kids |-> around[1] \o <<obj>> \o around[2]]
    /\ UNCHANGED <<scoreVars, detectVars, labelVars, orchVars, sanitized, interleaveVars, pageVars>>

CallSanitizeLargeInts ==
    /\ pc = "ready"
    /\ sanitized' = _sanitize_large_ints(obj)
    /\ pc' = "done"
    /\ UNCHANGED <<scoreVars, decoded_logs, optionVars, position, prev_price, findings,
                   labelVars, orchVars, obj, interleaveVars, pageVars>>

SanitizeNext ==
    \/ \E kind \in {"dict", "list"}, around \in Neighbours : Nest(kind, around)
    \/ CallSanitizeLargeInts

SpecSanitize == SanitizeInit /\ [][SanitizeNext]_vars

(* Claims about _sanitize_large_ints *)

\* the magnitude is 2^63 or more
BeyondInt64(mag) == mag[1] >= 1

DigitValue(c) == CHOOSE d \in 0..9 : <<"0", "1", "2", "3", "4", "5", "6", "7", "8", "9">>[d + 1] = c

\* 10 * mag + d
MulAdd10(mag, d) ==
    LET c4 == mag[4] * 10 + d
        c3 == mag[3] * 10 + c4 \div LIMB
        c2 == mag[2] * 10 + c3 \div LIMB
        c1 == mag[1] * 10 + c2 \div LIMB
    IN <<c1, c2 % LIMB, c3 % LIMB, c4 % LIMB>>

\* the magnitude a sequence of decimal digits denotes
RECURSIVE ReadDecimal(_)
ReadDecimal(chars) ==
    IF chars = <<>> THEN <<0, 0, 0, 0>>
    ELSE MulAdd10(ReadDecimal(SubSeq(chars, 1, Len(chars) - 1)), DigitValue(chars[Len(chars)]))

\* chars is the decimal numeral of the integer: a "-" for a negative one,
\* then its digits without a leading zero
IsDecimalOf(chars, sign, mag) ==
    LET digits == IF sign < 0 THEN Tail(chars) ELSE chars
    IN /\ sign < 0 => Head(chars) = "-"
       /\ digits # <<>>
       /\ \A i \in 1..Len(digits) :
             digits[i] \in {"0", "1", "2", "3", "4", "5", "6", "7", "8", "9"}
       /\ digits[1] # "0"
       /\ ReadDecimal(digits) = mag

\* b is a with every integer beyond the 64-bit range, at any depth of dicts
\* and lists, replaced by its decimal string and nothing else changed
RECURSIVE SanitizedFrom(_, _)
SanitizedFrom(a, b) ==
    IF a.t \in {"dict", "list"}
    THEN /\ b.t = a.t
         /\ Len(b.kids) = Len(a.kids)
         /\ \A i \in 1..Len(a.kids) : SanitizedFrom(a.kids[i], b.kids[i])
    ELSE IF a.t = "int" /\ BeyondInt64(a.mag)
    THEN b.t = "str" /\ IsDecimalOf(b.s, a.sign, a.mag)
    ELSE b = a

RECURSIVE HoldsLargeInt(_)
HoldsLargeInt(o) ==
    \/ (o.t = "int" /\ BeyondInt64(o.mag))
    \/ \E i \in 1..Len(o.kids) : HoldsLargeInt(o.kids[i])

\* C13: what the orchestrators pass through _sanitize_large_ints (alert
\* details, metrics, data, raw) comes out with every integer whose magnitude
\* is beyond the signed 64-bit range turned into its decimal string, at any
\* nesting depth of dicts and lists, and holds no such native integer.
C13_LargeIntsBecomeStrings ==
    pc = "done" => (SanitizedFrom(obj, sanitized) /\ ~HoldsLargeInt(sanitized))

\* a dict holding a list that holds 2^63 and 2^63 - 1: the first comes out as
\* "9223372036854775808", the second as it went in
C13_Witness ==
    /\ pc = "done"
    /\ obj.t = "dict"
    /\ \E i \in 1..Len(obj.kids) :
          /\ obj.kids[i].t = "list"
          /\ \E j, k \in 1..Len(obj.kids[i].kids) :
                /\ obj.kids[i].kids[j] = JInt(1, <<1, 0, 0, 0>>)
                /\ sanitized.kids[i].kids[j] =
                       JStr(<<"9", "2", "2", "3", "3", "7", "2", "0", "3", "6",
                              "8", "5", "4", "7", "7", "5", "8", "0", "8">>)
                /\ obj.kids[i].kids[k] = JInt(1, INT64_LIMIT)
                /\ sanitized.kids[i].kids[k] = JInt(1, INT64_LIMIT)

----------------------------------------------------------------------------
(* The analysis orchestrators of tools.py and the entry points that call them *)

\* SEVERITY_RANK, and its keys in insertion order
SEVERITY_RANK == [low |-> 0, medium |-> 1, high |-> 2]

SeverityKeys == <<"low", "medium", "high">>

SEVERITY_DEFAULTS ==
    [value_anomaly |-> "medium", large_transfer |-> "high", centrality |-> "medium",
     trend |-> "high", heuristic |-> "medium", price_impact |-> "high",
     wash_trade |-> "high", transaction_risk |-> "medium"]

\* mapping.get(key, default)
GetOr(mapping, key, default) == IF key \in DOMAIN mapping THEN mapping[key] ELSE default

\* f"{prefix}_{uuid.uuid4().hex}": a fresh identifier at every call, given
\* here by the prefix and the number of the call among those with that prefix
_generate_alert_id(prefix, nth) == <<prefix, nth>>

\* item.get("address"), of the wallet and event-log orchestrators
ItemAddress(item) == GetOr(item, "address", NONE)

\* item.get("participants", [None])[0], of the swap orchestrator
FirstParticipant(item) == GetOr(item, "participants", <<NONE>>)[1]

\* the inner loop with the category default given to every alert, whatever
\* severity the item carries
CategoryAlerts_DefaultOnly(category, payload, address_from, fallback) ==
    [i \in 1..Len(payload) |->
        [id |-> _generate_alert_id(category, i),
         type |-> category,
         address |-> IF address_from = "participants" THEN FirstParticipant(payload[i])
                     ELSE ItemAddress(payload[i]),
         severity |-> GetOr(SEVERITY_DEFAULTS, category, fallback),
         verdict |-> GetOr(payload[i], "verdict", "suspected_fraud"),
         details |-> payload[i]]]

\* the inner loop "for item in payload": one alert per item, in order, its
\* address read from the item's "address" or from its "participants".  The
\* details are the item itself: every integer of the batches drawn below is
\* within 64 bits, where _sanitize_large_ints returns its argument as it is
CategoryAlerts(category, payload, address_from, fallback) ==
    [i \in 1..Len(payload) |->
        [id |-> _generate_alert_id(category, i),
         type |-> category,
         address |-> IF address_from = "participants" THEN FirstParticipant(payload[i])
                     ELSE ItemAddress(payload[i]),
         severity |-> GetOr(payload[i], "severity",
                            GetOr(SEVERITY_DEFAULTS, category, fallback)),
         verdict |-> GetOr(payload[i], "verdict", "suspected_fraud"),
         details |-> payload[i]]]

\* the alerts of the wallet and event-log orchestrators, category by category
TransferAlerts(an, lt, ce, tr, fp) ==
    CategoryAlerts("value_anomaly", an, "address", "medium")
    \o CategoryAlerts("large_transfer", lt, "address", "medium")
    \o CategoryAlerts("centrality", ce, "address", "medium")
    \o CategoryAlerts("trend", tr, "address", "medium")
    \o CategoryAlerts("heuristic", fp, "address", "medium")

SwapAlerts(pi, wt) ==
    CategoryAlerts("price_impact", pi, "participants", "high")
    \o CategoryAlerts("wash_trade", wt, "participants", "high")

\* an alert for every labelled transaction, flagged or not
TransactionAlerts_EveryTransaction(labelled) ==
    [i \in 1..Len(labelled) |->
        [id |-> _generate_alert_id("transaction_risk", i),
         type |-> "transaction_risk",
         address |-> IF Truthy(labelled[i].from) THEN labelled[i].from
                     ELSE labelled[i].from_,
         severity |-> IF "large_value" \in SeqToSet(labelled[i].risk_flags)
                      THEN "high" ELSE "medium",
         verdict |-> "suspected_fraud",
         details |-> labelled[i]]]

\* one alert per labelled transaction that carries a risk flag
TransactionAlerts(labelled) ==
    LET flagged == SelectSeq(labelled, LAMBDA item : item.risk_flags # <<>>)
    IN [i \in 1..Len(flagged) |->
           [id |-> _generate_alert_id("transaction_risk", i),
            type |-> "transaction_risk",
            address |-> IF Truthy(flagged[i].from) THEN flagged[i].from
                        ELSE flagged[i].from_,
            severity |-> IF "large_value" \in SeqToSet(flagged[i].risk_flags)
                         THEN "high" ELSE "medium",
            verdict |-> "suspected_fraud",
            details |-> flagged[i]]]

\* the rank of the last alert, whatever came before it
MaxSeverity_Last(alerts) ==
    IF alerts = <<>> THEN 0
    ELSE GetOr(SEVERITY_RANK, alerts[Len(alerts)].severity, 0)

\* max([SEVERITY_RANK.get(alert.get("severity", "low"), 0) ...] or [0])
MaxSeverity(alerts) ==
    LET ranks == [i \in 1..Len(alerts) |->
                     GetOr(SEVERITY_RANK, GetOr(alerts[i], "severity", "low"), 0)]
    IN IF ranks = <<>> THEN 0 ELSE MaxOf(SeqToSet(ranks))

\* the first key of SEVERITY_RANK with that rank, "low" if there is none
SeverityLabel(max_severity) ==
    LET severity_label == SelectSeq(SeverityKeys, LAMBDA k : SEVERITY_RANK[k] = max_severity)
    IN IF severity_label # <<>> THEN severity_label[1] ELSE "low"

\* a verdict that does not look at the alerts
Verdict_Suspected(alerts) == "suspected_fraud"

\* "clear" if not alerts else "suspected_fraud"
Verdict(alerts) == IF alerts = <<>> THEN "clear" ELSE "suspected_fraud"

\* input_data[:10].lower() for the call data of ten characters or more
SelectorTable == [d \in {"0xA9059CBB0001"} |-> "0xa9059cbb"]

\* no selector is known: the orchestrator passes no known_selectors
decode_transaction_methods(txs) ==
    [i \in 1..Len(txs) |->
        LET tx == txs[i]
            input_data == tx.input
        IN IF input_data = NONE \/ input_data \notin DOMAIN SelectorTable
           THEN [k \in DOMAIN tx \cup {"method"} |->
                    IF k = "method" THEN NONE ELSE tx[k]]
           ELSE [k \in DOMAIN tx \cup {"method", "selector"} |->
                    IF k = "method" THEN NONE
                    ELSE IF k = "selector" THEN SelectorTable[input_data]
                    ELSE tx[k]]]

\* compute_rolling_trends is imported by tools.py and defined nowhere in the
\* sources at hand.  What it may return: no finding for an empty batch (every
\* detector returns an empty list on an empty batch), and otherwise any list
\* of findings, each with or without a severity of its own
MaxTrendAlerts == 1

TrendFindings ==
    {[type |-> "trend", address |-> "0xA"],
     [type |-> "trend", address |-> "0xA", severity |-> "low"]}

compute_rolling_trends(logs) ==
    IF logs = <<>> THEN {<<>>} ELSE SeqsUpTo(TrendFindings, MaxTrendAlerts)

\* compute_wallet_baselines, likewise: an aggregate nothing is known about
compute_wallet_baselines(logs) == "<baselines>"

(* Specification SpecOrch: one request, from its entry point to its outcome *)

MaxOrchBatch == 2

\* the MCP tool wrappers of mcp_fraud.py, and a direct call of tools.py as
\* the Streamlit client makes it
Entries == {"mcp", "direct"}

\* a transfer of 1000, one of 1000000, a self-transfer of nothing, and a
\* transfer with a None value
OrchEvents ==
    {Event(<<"0xA", "0xB">>, <<IntVal(1000)>>),
     Event(<<"0xA", "0xB">>, <<IntVal(1000000)>>),
     Event(<<"0xA", "0xA">>, <<IntVal(0)>>),
     Event(<<"0xA", "0xB">>, <<NoneVal>>)}

\* swaps at sqrtPriceX96 100, 200 and 201, and one without liquidity
OrchSwaps ==
    {SwapEvent(SwapTopics, IntVal(5000), IntVal(-7000), IntVal(100), IntVal(1000)),
     SwapEvent(SwapTopics, IntVal(5000), IntVal(-7000), StrVal("0xc8"), IntVal(1000)),
     SwapEvent(SwapTopics, IntVal(5000), IntVal(-7000), IntVal(201), IntVal(1000)),
     SwapEvent(SwapTopics, IntVal(5000), IntVal(-7000), IntVal(201), IntVal(0))}

\* a block range in order and one with the end before the start
BlockRanges == {<<100, 200>>, <<200, 100>>}

Request(kind, entry, start_block, end_block, decode_methods) ==
    [kind |-> kind, entry |-> entry, start_block |-> start_block,
     end_block |-> end_block, decode_methods |-> decode_methods]

\* the keyword arguments of an analysis of transfer events
TransferOptions ==
    /\ z_threshold = Rat(1, 1)
    /\ min_value \in MinValues
    /\ min_degree \in {1, 3}
    /\ max_swaps = 3
    /\ min_price_delta_bps = Rat(50, 1)
    /\ min_notional = NoInt
    /\ include_self_transfers \in BOOLEAN
    /\ include_zero_value \in BOOLEAN
    /\ watchlist = <<>>
    /\ large_value_threshold = 1000

OrchInit ==
    /\ SanitizeIdle
    /\ InterleaveIdle
    /\ PageIdle
    /\ anomalies = <<>>
    /\ large_transfers = <<>>
    /\ centrality = <<>>
    /\ scores = <<>>
    /\ decoded_logs = <<>>
    /\ position = 0
    /\ prev_price = NoInt
    /\ findings = <<>>
    /\ pc = "called"
    /\ transactions = <<>>
    /\ filtered_patterns = <<>>
    /\ fetch_calls = 0
    /\ trend_alerts = <<>>
    /\ price_impacts = <<>>
    /\ wash_trades = <<>>
    /\ enriched = <<>>
    /\ response = NoResponse
    /\ \/ /\ \E entry \in Entries, from_block \in {0, 100} :
                request = Request("wallet", entry, from_block, 0, TRUE)
          /\ watched_addresses \in {<<>>, <<"0xA">>}
          /\ TransferOptions
       \/ /\ \E entry \in Entries, range \in BlockRanges :
                request = Request("event_logs", entry, range[1], range[2], TRUE)
          /\ watched_addresses = <<>>
          /\ TransferOptions
       \/ /\ \E entry \in Entries, range \in BlockRanges :
                request = Request("swap", entry, range[1], range[2], TRUE)
          /\ watched_addresses = <<>>
          /\ z_threshold = Rat(2, 1)
          /\ min_value = 1000
          /\ min_degree = 1
          /\ max_swaps \in MaxSwapsChoices
          /\ min_price_delta_bps \in BpsThresholds
          /\ min_notional = NoInt
          /\ include_self_transfers = TRUE
          /\ include_zero_value = TRUE
          /\ watchlist = <<>>
          /\ large_value_threshold = 1000
       \/ /\ \E entry \in Entries, decode_methods \in BOOLEAN :
                request = Request("transaction", entry, 0, 0, decode_methods)
          /\ watched_addresses = <<>>
          /\ OptionsAtRest
          /\ include_self_transfers = TRUE
          /\ include_zero_value = TRUE
          /\ watchlist \in Watchlists
          /\ large_value_threshold \in ValueThresholds

\* the checks made ahead of the fetch: wallet_activity refuses an empty
\* address list and a from_block that is not positive, and so does
\* collect_wallet_activity the empty list, before it creates its client;
\* event_logs and swap_events refuse an end before the start.  The
\* orchestrators and fetch functions of the backend check no block range
Refused ==
    \/ request.kind = "wallet" /\ watched_addresses = <<>>
    \/ request.kind = "wallet" /\ request.entry = "mcp" /\ request.start_block <= 0
    \/ /\ request.kind \in {"event_logs", "swap"}
       /\ request.entry = "mcp"
       /\ request.end_block < request.start_block

\* ValueError: the request ends here
RejectRequest ==
    /\ pc = "called"
    /\ Refused
    /\ pc' = "rejected"
    /\ UNCHANGED <<scoreVars, decoded_logs, optionVars, position, prev_price, findings,
                   callVars>>

\* the fetch returns a payload: decoded events, or transactions
Fetch ==
    /\ pc = "called"
    /\ ~Refused
    /\ fetch_calls' = fetch_calls + 1
    /\ IF request.kind = "transaction"
       THEN /\ transactions' \in SeqsUpTo(TxUniverse, MaxOrchBatch)
            /\ UNCHANGED decoded_logs
       ELSE /\ decoded_logs' \in SeqsUpTo(IF request.kind = "swap" THEN OrchSwaps
                                          ELSE OrchEvents, MaxOrchBatch)
            /\ UNCHANGED transactions
    /\ pc' = "fetched"
    /\ UNCHANGED <<scoreVars, optionVars, position, prev_price, findings,
                   watchlist, large_value_threshold, include_self_transfers,
                   include_zero_value, filtered_patterns,
                   request, trend_alerts, price_impacts, wash_trades, enriched, response,
                   sanitizeVars, interleaveVars, pageVars>>

\* the fetch raises, and no orchestrator catches it
FetchFails ==
    /\ pc = "called"
    /\ ~Refused
    /\ fetch_calls' = fetch_calls + 1
    /\ pc' = "fetch_failed"
    /\ UNCHANGED <<scoreVars, decoded_logs, optionVars, position, prev_price, findings,
                   labelVars, request, trend_alerts, price_impacts, wash_trades, enriched,
                   response, sanitizeVars, interleaveVars, pageVars>>

\* summary.verdict and summary.severity
Overall(alerts) ==
    [verdict |-> Verdict(alerts), severity |-> SeverityLabel(MaxSeverity(alerts))]

\* analyze_wallet_activity, from the fetched payload on
AnalyzeWalletActivity ==
    /\ pc = "fetched"
    /\ request.kind = "wallet"
    /\ LET an == detect_value_anomalies(decoded_logs, z_threshold)
           lt == detect_large_transfers(decoded_logs, min_value)
           ce == compute_address_centrality(decoded_logs, min_degree)
           fp == _filter_suspicious_patterns(detect_suspicious_patterns(decoded_logs),
                                             include_self_transfers, include_zero_value)
           baselines == compute_wallet_baselines(decoded_logs)
       IN IF lt.raised
          THEN /\ pc' = "raised"
               /\ UNCHANGED <<scoreVars, filtered_patterns, trend_alerts, response>>
          ELSE \E tr \in compute_rolling_trends(decoded_logs),
                  order \in Orderings({Lower(watched_addresses[i]) :
                                          i \in 1..Len(watched_addresses)}) :
                  LET risk_scores == score_wallet_activity(watched_addresses, an,
                                                           lt.flagged, ce)
                      counterparties == summarize_counterparties(decoded_logs,
                                                                 watched_addresses, order)
                      alerts == TransferAlerts(an, lt.flagged, ce, tr, fp)
                  IN /\ anomalies' = an
                     /\ large_transfers' = lt.flagged
                     /\ centrality' = ce
                     /\ filtered_patterns' = fp
                     /\ trend_alerts' = tr
                     /\ scores' = risk_scores
                     /\ response' =
                            [summary |-> Overall(alerts),
                             alerts |-> alerts,
                             metrics |-> [baselines |-> baselines,
                                          risk_scores |-> risk_scores,
                                          counterparties |-> counterparties],
                             raw |-> [decoded_logs |-> decoded_logs]]
                     /\ pc' = "done"
                     /\ UNCHANGED watched_addresses
    /\ UNCHANGED <<decoded_logs, optionVars, position, prev_price, findings,
                   transactions, watchlist, large_value_threshold,
                   include_self_transfers, include_zero_value,
                   request, fetch_calls, price_impacts, wash_trades, enriched,
                   sanitizeVars, interleaveVars, pageVars>>

\* analyze_event_logs, from the fetched payload on
AnalyzeEventLogs ==
    /\ pc = "fetched"
    /\ request.kind = "event_logs"
    /\ LET an == detect_value_anomalies(decoded_logs, z_threshold)
           lt == detect_large_transfers(decoded_logs, min_value)
           ce == compute_address_centrality(decoded_logs, min_degree)
           fp == _filter_suspicious_patterns(detect_suspicious_patterns(decoded_logs),
                                             include_self_transfers, include_zero_value)
           baselines == compute_wallet_baselines(decoded_logs)
       IN IF lt.raised
          THEN /\ pc' = "raised"
               /\ UNCHANGED <<scoreVars, filtered_patterns, trend_alerts, response>>
          ELSE \E tr \in compute_rolling_trends(decoded_logs) :
                  LET alerts == TransferAlerts(an, lt.flagged, ce, tr, fp)
                  IN /\ anomalies' = an
                     /\ large_transfers' = lt.flagged
                     /\ centrality' = ce
                     /\ filtered_patterns' = fp
                     /\ trend_alerts' = tr
                     /\ response' =
                            [summary |-> Overall(alerts),
                             alerts |-> alerts,
                             metrics |-> [baselines |-> baselines],
                             raw |-> [decoded_logs |-> decoded_logs]]
                     /\ pc' = "done"
                     /\ UNCHANGED <<watched_addresses, scores>>
    /\ UNCHANGED <<decoded_logs, optionVars, position, prev_price, findings,
                   transactions, watchlist, large_value_threshold,
                   include_self_transfers, include_zero_value,
                   request, fetch_calls, price_impacts, wash_trades, enriched,
                   sanitizeVars, interleaveVars, pageVars>>

\* the swap analysis fetching once more while it computes
AnalyzeSwapEvents_Refetches ==
    /\ pc = "fetched"
    /\ request.kind = "swap"
    /\ fetch_calls' = fetch_calls + 1
    /\ LET pi == analyze_swap_price_impact(decoded_logs, min_price_delta_bps, min_notional)
           wt == detect_swap_wash_trades(decoded_logs, max_swaps)
           alerts == SwapAlerts(pi, wt)
       IN /\ price_impacts' = pi
          /\ wash_trades' = wt
          /\ response' =
                 [summary |-> Overall(alerts),
                  alerts |-> alerts,
                  raw |-> [decoded_logs |-> decoded_logs]]
    /\ pc' = "done"
    /\ UNCHANGED <<scoreVars, decoded_logs, optionVars, position, prev_price, findings,
                   labelVars, request, trend_alerts, enriched, sanitizeVars, interleaveVars, pageVars>>

\* analyze_swap_events, from the fetched payload on
AnalyzeSwapEvents ==
    /\ pc = "fetched"
    /\ request.kind = "swap"
    /\ LET pi == analyze_swap_price_impact(decoded_logs, min_price_delta_bps, min_notional)
           wt == detect_swap_wash_trades(decoded_logs, max_swaps)
           alerts == SwapAlerts(pi, wt)
       IN /\ price_impacts' = pi
          /\ wash_trades' = wt
          /\ response' =
                 [summary |-> Overall(alerts),
                  alerts |-> alerts,
                  raw |-> [decoded_logs |-> decoded_logs]]
    /\ pc' = "done"
    /\ UNCHANGED <<scoreVars, decoded_logs, optionVars, position, prev_price, findings,
                   labelVars, request, fetch_calls, trend_alerts, enriched, sanitizeVars, interleaveVars, pageVars>>

\* analyze_transaction, from the fetched payload on
AnalyzeTransaction ==
    /\ pc = "fetched"
    /\ request.kind = "transaction"
    /\ LET decoded == IF request.decode_methods
                      THEN decode_transaction_methods(transactions)
                      ELSE transactions
           labelled == label_transaction_risk(decoded, watchlist, large_value_threshold)
           alerts == TransactionAlerts(labelled)
       IN /\ enriched' = labelled
          /\ response' =
                 [summary |-> [total_transactions |-> Len(transactions),
                               verdict |-> Verdict(alerts),
                               severity |-> SeverityLabel(MaxSeverity(alerts))],
                  alerts |-> alerts,
                  data |-> labelled,
                  raw |-> [transactions |-> transactions]]
    /\ pc' = "done"
    /\ UNCHANGED <<scoreVars, decoded_logs, optionVars, position, prev_price, findings,
                   labelVars, request, fetch_calls, trend_alerts, price_impacts,
                   wash_trades, sanitizeVars, interleaveVars, pageVars>>

OrchNext ==
    \/ RejectRequest
    \/ Fetch
    \/ FetchFails
    \/ AnalyzeWalletActivity
    \/ AnalyzeEventLogs
    \/ AnalyzeSwapEvents
    \/ AnalyzeTransaction

SpecOrch == OrchInit /\ [][OrchNext]_vars

(* Claims about the orchestrators *)

\* a response has been returned by an orchestrator
Responded == pc = "done" /\ request.kind # "none"

\* the highest of the severities present, by inspection and without ranks
HighestPresent(alerts) ==
    IF \E i \in 1..Len(alerts) : alerts[i].severity = "high" THEN "high"
    ELSE IF \E i \in 1..Len(alerts) : alerts[i].severity = "medium" THEN "medium"
    ELSE "low"

\* C11: in the response of every orchestrator, summary.verdict is "clear"
\* exactly when the alerts list is empty and "suspected_fraud" otherwise, and
\* summary.severity is the highest severity among the alerts (low < medium <
\* high), "low" when there are none.
C11_VerdictAndSeverity ==
    Responded =>
        /\ response.summary.verdict = "clear" <=> response.alerts = <<>>
        /\ response.summary.verdict = "suspected_fraud" <=> response.alerts # <<>>
        /\ response.summary.severity = HighestPresent(response.alerts)

\* a wallet response whose alerts run from a high one to a low one at the
\* end, summed up as suspected fraud of high severity
C11_Witness ==
    /\ Responded
    /\ request.kind = "wallet"
    /\ \E i \in 1..Len(response.alerts) : response.alerts[i].severity = "high"
    /\ \E i \in 1..Len(response.alerts) : response.alerts[i].severity = "medium"
    /\ response.alerts[Len(response.alerts)].severity = "low"
    /\ response.summary = [verdict |-> "suspected_fraud", severity |-> "high"]

\* C12: every orchestrator (wallet, event-log, swap, transaction) returns a
\* response object with the four named sections summary, alerts, metrics and
\* raw.
C12_FourSections ==
    Responded =>
        {"summary", "alerts", "metrics", "raw"} \subseteq DOMAIN response

\* the fetch result is empty: no decoded event and no transaction
EmptyFetch == decoded_logs = <<>> /\ transactions = <<>>

\* C14: with an empty event batch or transaction list, every detector (value
\* anomalies, large transfers, centrality, suspicious patterns, price impact,
\* wash trades, transaction labeler) returns an empty list without raising,
\* whatever its thresholds, and every orchestrator run on such a fetch result
\* returns no alerts, verdict "clear" and severity "low".
C14_EmptyBatchIsClear ==
    /\ detect_value_anomalies(<<>>, z_threshold) = <<>>
    /\ detect_large_transfers(<<>>, min_value) = [raised |-> FALSE, flagged |-> <<>>]
    /\ compute_address_centrality(<<>>, min_degree) = <<>>
    /\ detect_suspicious_patterns(<<>>) = <<>>
    /\ analyze_swap_price_impact(<<>>, min_price_delta_bps, min_notional) = <<>>
    /\ detect_swap_wash_trades(<<>>, max_swaps) = <<>>
    /\ label_transaction_risk(<<>>, watchlist, large_value_threshold) = <<>>
    /\ (request.kind # "none" /\ pc \in {"done", "raised"} /\ EmptyFetch) =>
           /\ pc = "done"
           /\ response.alerts = <<>>
           /\ response.summary.verdict = "clear"
           /\ response.summary.severity = "low"

\* the wallet orchestrator has answered "clear" on a fetch that came back empty
C14_Witness ==
    /\ Responded
    /\ request.kind = "wallet"
    /\ fetch_calls = 1
    /\ EmptyFetch
    /\ response.alerts = <<>>
    /\ response.summary = [verdict |-> "clear", severity |-> "low"]

\* the request lacks a required argument: a wallet analysis without watched
\* addresses, or an event-log or swap analysis with end_block < start_block
MissingArgument ==
    \/ request.kind = "wallet" /\ watched_addresses = <<>>
    \/ request.kind \in {"event_logs", "swap"} /\ request.end_block < request.start_block

\* C15: an analysis request with a missing required argument ends in an
\* error before the fetch or any detector step is taken, and no response, not
\* even a partial one, is emitted.
C15_FailFast ==
    MissingArgument =>
        /\ pc \in {"called", "rejected"}
        /\ fetch_calls = 0
        /\ response = NoResponse

----------------------------------------------------------------------------
(* The zero previous price of analyze_swap_price_impact *)

\* the valid event before the last valid one among the first k had price zero
ReseededAt(k) ==
    /\ Cardinality(ValidBefore(k)) >= 2
    /\ LET last == CHOOSE i \in ValidBefore(k) : \A j \in ValidBefore(k) : j <= i
       IN LastValidSqrt(last - 1) = 0

\* C21: when previous_price is exactly zero at a valid swap event, the scan
\* emits no finding for that event, performs no division and does not raise;
\* previous_price is reseeded to that event's price, and the next valid event
\* is compared against the reseeded price.
C21_ZeroPriceReseeds ==
    /\ [][(Scanning /\ ValidSwap(NextEvent, min_notional) /\ prev_price = Some(0))
          => /\ findings' = findings
             /\ prev_price' = Some(EventPrice(NextEvent))
             /\ position' = position + 1
             /\ pc' = "ready"]_vars
    /\ [][(/\ Scanning
           /\ ValidSwap(NextEvent, min_notional)
           /\ ReseededAt(position)
           /\ LastValidSqrt(position) # 0)
          => IF ImpactAtLeast(SqrtPriceOf(NextEvent), LastValidSqrt(position))
             THEN /\ Len(findings') = Len(findings) + 1
                  /\ findings'[Len(findings')].previous_price
                         = X96Price(LastValidSqrt(position))
                  /\ findings'[Len(findings')].price = EventPrice(NextEvent)
             ELSE findings' = findings]_vars
    /\ [](/\ pc \in {"ready", "done"}
          /\ \A k \in 1..Len(findings) : findings[k].delta_bps.den # 0)

\* valid swaps at sqrtPriceX96 0, 201 and 100: the second meets a zero price
\* and reseeds it, the third is flagged against 201 squared
C21_Witness ==
    /\ pc = "done"
    /\ Len(decoded_logs) = 3
    /\ ValidBefore(3) = 1..3
    /\ SqrtPriceOf(decoded_logs[1]) = 0
    /\ SqrtPriceOf(decoded_logs[2]) = 201
    /\ SqrtPriceOf(decoded_logs[3]) = 100
    /\ Len(findings) = 1
    /\ findings[1].previous_price = 40401
    /\ findings[1].price = 10000

----------------------------------------------------------------------------
(* The output order of compute_address_centrality and score_wallet_activity *)

\* the endpoints of the valid events of the batch, in the order met: of each
\* event the sender, then the receiver
RECURSIVE Encounters(_)
Encounters(logs) ==
    IF logs = <<>> THEN <<>>
    ELSE (IF ValidTransfer(Head(logs))
          THEN <<Lower(_extract_transfer(Head(logs)).from_addr),
                 Lower(_extract_transfer(Head(logs)).to_addr)>>
          ELSE <<>>) \o Encounters(Tail(logs))

\* where the address is first met
FirstMet(a) ==
    LET met == Encounters(decoded_logs)
    IN CHOOSE i \in 1..Len(met) : met[i] = a /\ \A j \in 1..(i - 1) : met[j] # a

\* C22: compute_address_centrality outputs exactly the addresses whose degree
\* is >= min_degree, each once, ordered by non-increasing degree, addresses of
\* equal degree in the order in which they were first met in the batch.
C22_CentralityFilterAndOrder ==
    pc = "done" =>
        /\ {Lower(findings[k].address) : k \in 1..Len(findings)}
               = {a \in SeqToSet(Encounters(decoded_logs)) :
                     Cardinality(Counterparties(a)) >= min_degree}
        /\ \A k, l \in 1..Len(findings) :
              Lower(findings[k].address) = Lower(findings[l].address) => k = l
        /\ \A k, l \in 1..Len(findings) :
              k < l =>
                 /\ findings[k].degree >= findings[l].degree
                 /\ findings[k].degree = findings[l].degree =>
                       FirstMet(Lower(findings[k].address))
                           <= FirstMet(Lower(findings[l].address))

\* where the lower-cased address first appears in the watchlist
FirstWatched(a) ==
    CHOOSE i \in 1..Len(watched_addresses) :
        /\ Lower(watched_addresses[i]) = a
        /\ \A j \in 1..(i - 1) : Lower(watched_addresses[j]) # a

\* C23: the list returned by score_wallet_activity is ordered by
\* non-increasing final (clamped) score, and entries of equal score keep the
\* order in which their addresses first appear in the watchlist.
C23_ScoresSortedStable ==
    \A i, j \in 1..Len(scores) :
        i < j =>
           /\ scores[i].score >= scores[j].score
           /\ scores[i].score = scores[j].score =>
                 FirstWatched(scores[i].address) < FirstWatched(scores[j].address)

\* the address watched second outscores the one watched first and is
\* returned ahead of it
C23_Witness ==
    /\ Len(scores) = 2
    /\ FirstWatched(scores[1].address) > FirstWatched(scores[2].address)
    /\ scores[1].score > scores[2].score
    /\ scores[2].score > 0

----------------------------------------------------------------------------
(* The counterparty ledger of summarize_counterparties *)

\* the lower-cased watched addresses of the call
WatchedSet == {Lower(watched_addresses[i]) : i \in 1..Len(watched_addresses)}

\* the events that have x at one end and a watched address at the other
SharedWith(x) ==
    {k \in SentBy(x) :
        Len(decoded_logs[k].indexed) >= 2 /\ Lower(decoded_logs[k].indexed[2]) \in WatchedSet}
    \cup {k \in ReceivedBy(x) : Lower(decoded_logs[k].indexed[1]) \in WatchedSet}

\* C24: the counterparty ledger never contains a watched address: it has an
\* entry for X iff X is non-empty, unwatched, and the other endpoint of at
\* least one event whose sender or receiver is watched; interactions is the
\* number of such events and total_value their summed values (0 for a value
\* that is missing); an event between two watched addresses adds nothing;
\* entries come in non-increasing total_value order.
C24_LedgerExact ==
    pc = "done" =>
        LET L == findings.counterparties
        IN /\ \A i \in 1..Len(L) : L[i].address \notin WatchedSet
           /\ \A i, j \in 1..Len(L) : L[i].address = L[j].address => i = j
           /\ {L[i].address : i \in 1..Len(L)}
                  = {x \in {"0xa", "0xb", "0xc"} \ WatchedSet : SharedWith(x) # {}}
           /\ \A i \in 1..Len(L) :
                 /\ L[i].interactions = Cardinality(SharedWith(L[i].address))
                 /\ L[i].total_value = Volume(SharedWith(L[i].address))
           /\ \A i, j \in 1..Len(L) : i < j => L[i].total_value >= L[j].total_value

\* 0xA and 0xB are watched: the transfer between them leaves no trace in the
\* ledger, the transfer from 0xa to 0xC is its only entry
C24_Witness ==
    /\ pc = "done"
    /\ WatchedSet = {"0xa", "0xb"}
    /\ Len(decoded_logs) = 2
    /\ SharedWith("0xb") # {}
    /\ findings.counterparties =
           <<[address |-> "0xc", interactions |-> 1, total_value |-> 1000000]>>

----------------------------------------------------------------------------
(* The degenerate populations of _z_scores *)

\* the values the detector hands to _z_scores for the batch of the call
BatchValues == CollectValues(decoded_logs)

\* every value of the population is the same
ConstantValues == \A i, j \in 1..Len(BatchValues) : BatchValues[i] = BatchValues[j]

\* C25: _z_scores returns a sequence as long as its input: empty for an empty
\* input, [0.0] for a single value, and all zeros whenever the population
\* standard deviation is zero, as for every batch of identical values, with
\* no division by zero; so detect_value_anomalies flags nothing on a constant
\* batch for any z_threshold > 0.
C25_ZScoresDegenerate ==
    LET zs == _z_scores(BatchValues)
    IN /\ Len(zs) = Len(BatchValues)
       /\ BatchValues = <<>> => zs = <<>>
       /\ Len(BatchValues) = 1 => zs = <<[num |-> 0, den2 |-> 1]>>
       /\ \A i \in 1..Len(zs) : zs[i].den2 > 0
       /\ ConstantValues => \A i \in 1..Len(zs) : zs[i].num = 0
       /\ (pc = "done" /\ ConstantValues /\ z_threshold.num > 0) => findings = <<>>

\* five events that all carry 1000, one of them as a hex string: five
\* z-scores of zero and nothing flagged
C25_Witness ==
    /\ pc = "done"
    /\ Len(decoded_logs) = 5
    /\ Len(BatchValues) = 5
    /\ ConstantValues
    /\ BatchValues[1] = 1000
    /\ \E i \in 1..5 : decoded_logs[i].body[1] = StrVal("0x3e8")
    /\ findings = <<>>

----------------------------------------------------------------------------
(* Fetch, then compute *)

\* what the detector steps of a run write: the finding lists and the response
detectorOutputs ==
    <<anomalies, large_transfers, centrality, scores, filtered_patterns, trend_alerts,
      price_impacts, wash_trades, enriched, response>>

NothingComputed ==
    /\ anomalies = <<>>
    /\ large_transfers = <<>>
    /\ centrality = <<>>
    /\ scores = <<>>
    /\ filtered_patterns = <<>>
    /\ trend_alerts = <<>>
    /\ price_impacts = <<>>
    /\ wash_trades = <<>>
    /\ enriched = <<>>
    /\ response = NoResponse

\* C26: in every orchestrator run exactly one fetch step happens, and it
\* completes before the first detector step; no detector step triggers or
\* interleaves with a fetch; if the fetch fails, no detector runs and no
\* response is emitted.
C26_FetchThenCompute ==
    /\ [](request.kind # "none" =>
             /\ fetch_calls \in {0, 1}
             /\ pc \in {"fetched", "fetch_failed", "done", "raised"} => fetch_calls = 1
             /\ pc \in {"called", "rejected", "fetched", "fetch_failed"} => NothingComputed
             /\ fetch_calls = 0 => pc \in {"called", "rejected"})
    /\ [][fetch_calls' # fetch_calls =>
             /\ pc = "called"
             /\ fetch_calls = 0
             /\ pc' \in {"fetched", "fetch_failed"}
             /\ detectorOutputs' = detectorOutputs]_vars
    /\ [][detectorOutputs' # detectorOutputs =>
             /\ pc = "fetched"
             /\ fetch_calls' = fetch_calls
             /\ <<decoded_logs, transactions>>' = <<decoded_logs, transactions>>]_vars
    /\ [][pc # "fetch_failed"]_vars

\* a swap run that fetched once and then raised alerts on what it fetched
C26_Witness ==
    /\ Responded
    /\ request.kind = "swap"
    /\ fetch_calls = 1
    /\ Len(decoded_logs) = 2
    /\ price_impacts # <<>>
    /\ wash_trades # <<>>
    /\ Len(response.alerts) = 2

----------------------------------------------------------------------------
(* Specification SpecInterleave: two invocations, each owning its batch,
   advanced one loop iteration at a time in any order.  Every name a
   function assigns is a local of its own invocation: previous_price and
   flagged of analyze_swap_price_impact, watch and enriched of
   label_transaction_risk, watched and scores of score_wallet_activity *)

MaxInterleaveBatch == 2

InterleaveSwaps ==
    {SwapEvent(SwapTopics, IntVal(5000), IntVal(-7000), IntVal(100), IntVal(1000)),
     SwapEvent(SwapTopics, IntVal(5000), IntVal(-7000), StrVal("0xc8"), IntVal(1000)),
     SwapEvent(SwapTopics, IntVal(5000), IntVal(-7000), IntVal(201), IntVal(0))}

InterleaveTxs ==
    {Tx("0x01", "0xa", NONE, "0xA", StrVal("0x3e8"), "0xA9059CBB0001"),
     Tx("0x04", "0xB", NONE, "0xC", IntVal(10), NONE)}

InterleaveAnomalies ==
    {AnomalyFinding(Event(<<"0xA", "0xB">>, <<IntVal(1000)>>)),
     AnomalyFinding(Event(<<"0xa">>, <<StrVal("0x3e8")>>))}

\* scores = {addr: {"address": addr, "score": 0, "factors": []} for addr in watched}
NewScores(watched_in) ==
    [a \in {Lower(watched_in[i]) : i \in 1..Len(watched_in)} |->
        [address |-> a, score |-> 0, factors |-> <<>>]]

\* the locals of a call at its first loop iteration
Invocation(fn, input, watch) ==
    [fn |-> fn, input |-> input, watch |-> watch, position |-> 0,
     prev |-> NoInt,
     acc |-> IF fn = "score_wallet_activity" THEN NewScores(watch) ELSE <<>>,
     pc |-> "running"]

Invocations ==
    {Invocation("analyze_swap_price_impact", logs, <<>>) :
        logs \in SeqsUpTo(InterleaveSwaps, MaxInterleaveBatch)}
    \cup {Invocation("label_transaction_risk", txs, <<"0xA">>) :
        txs \in SeqsUpTo(InterleaveTxs, MaxInterleaveBatch)}
    \cup {Invocation("score_wallet_activity", fs, <<"0xA", "0xB">>) :
        fs \in SeqsUpTo(InterleaveAnomalies, MaxInterleaveBatch)}

InterleaveInit ==
    /\ ScoreIdle
    /\ LabelIdle
    /\ OrchIdle
    /\ SanitizeIdle
    /\ OptionsAtRest
    /\ decoded_logs = <<>>
    /\ position = 0
    /\ prev_price = NoInt
    /\ findings = <<>>
    /\ pc = "interleaved"
    /\ PageIdle
    /\ calls \in [1..2 -> Invocations]

InLoop(i, fn) ==
    /\ calls # <<>>
    /\ calls[i].fn = fn
    /\ calls[i].pc = "running"
    /\ calls[i].position < Len(calls[i].input)

otherVars == <<scoreVars, detectVars, labelVars, orchVars, sanitizeVars, pageVars>>

\* one iteration of the loop of analyze_swap_price_impact with the previous
\* price kept in one place for every invocation
ScanSwap_SharedPrice(i) ==
    /\ InLoop(i, "analyze_swap_price_impact")
    /\ LET c == calls[i]
           event == c.input[c.position + 1]
           shared == calls[1].prev
           price == EventPrice(event)
       IN calls' =
           IF ~ValidSwap(event, min_notional)
           THEN [calls EXCEPT ![i].position = @ + 1]
           ELSE IF shared = NoInt \/ shared = Some(0)
           THEN [calls EXCEPT ![i].position = @ + 1, ![1].prev = Some(price)]
           ELSE [calls EXCEPT
                    ![i].position = @ + 1,
                    ![i].acc =
                        IF BpsGe(BpsDelta(price, shared[1]), min_price_delta_bps)
                        THEN Append(@, [type |-> "price_impact",
                                        price |-> price,
                                        previous_price |-> shared[1],
                                        delta_bps |-> BpsDelta(price, shared[1]),
                                        amount0 |-> DecodeField(event.body[1])[1],
                                        amount1 |-> DecodeField(event.body[2])[1],
                                        liquidity |-> DecodeField(event.body[4])[1],
                                        recipient |-> event.indexed[2]])
                        ELSE @,
                    ![1].prev = Some(price)]
    /\ UNCHANGED otherVars

\* one iteration of the loop of analyze_swap_price_impact
ScanSwap(i) ==
    /\ InLoop(i, "analyze_swap_price_impact")
    /\ LET c == calls[i]
           event == c.input[c.position + 1]
           price == EventPrice(event)
       IN calls' =
           IF ~ValidSwap(event, min_notional)
           THEN [calls EXCEPT ![i].position = @ + 1]
           ELSE IF c.prev = NoInt \/ c.prev = Some(0)
           THEN [calls EXCEPT ![i].position = @ + 1, ![i].prev = Some(price)]
           ELSE [calls EXCEPT
                    ![i].position = @ + 1,
                    ![i].acc =
                        IF BpsGe(BpsDelta(price, c.prev[1]), min_price_delta_bps)
                        THEN Append(@, [type |-> "price_impact",
                                        price |-> price,
                                        previous_price |-> c.prev[1],
                                        delta_bps |-> BpsDelta(price, c.prev[1]),
                                        amount0 |-> DecodeField(event.body[1])[1],
                                        amount1 |-> DecodeField(event.body[2])[1],
                                        liquidity |-> DecodeField(event.body[4])[1],
                                        recipient |-> event.indexed[2]])
                        ELSE @,
                    ![i].prev = Some(price)]
    /\ UNCHANGED otherVars

\* one iteration of the loop of label_transaction_risk
LabelTx(i) ==
    /\ InLoop(i, "label_transaction_risk")
    /\ LET c == calls[i]
           tx == c.input[c.position + 1]
       IN calls' = [calls EXCEPT
                       ![i].position = @ + 1,
                       ![i].acc = Append(@, LabelOne(tx, WatchSet(c.watch),
                                                     large_value_threshold))]
    /\ UNCHANGED otherVars

\* one iteration of the loop over anomalies of score_wallet_activity
ScoreAnomaly(i) ==
    /\ InLoop(i, "score_wallet_activity")
    /\ LET c == calls[i]
           anomaly == c.input[c.position + 1]
       IN calls' = [calls EXCEPT
                       ![i].position = @ + 1,
                       ![i].acc = ScoreFindings(@, <<anomaly>>, ANOMALY_POINTS,
                                                "z_score_anomaly")]
    /\ UNCHANGED otherVars

\* the return statement; the scorer first runs its loops over the (empty)
\* large transfers and centrality records, clamps and sorts
ReturnCall(i) ==
    /\ calls # <<>>
    /\ calls[i].pc = "running"
    /\ calls[i].position = Len(calls[i].input)
    /\ LET c == calls[i]
           keys == DictKeys([k \in 1..Len(c.watch) |-> Lower(c.watch[k])])
           sc3 == ApplyCentrality(c.acc, <<>>)
       IN calls' = [calls EXCEPT
                       ![i].pc = "done",
                       ![i].acc =
                           IF c.fn = "score_wallet_activity"
                           THEN SortByScoreDesc([k \in 1..Len(keys) |-> sc3[keys[k]]])
                           ELSE @]
    /\ UNCHANGED otherVars

InterleaveNext ==
    \E i \in 1..2 :
        \/ ScanSwap(i)
        \/ LabelTx(i)
        \/ ScoreAnomaly(i)
        \/ ReturnCall(i)

SpecInterleave == InterleaveInit /\ [][InterleaveNext]_vars

\* what the call returns when it runs alone from start to end
RunAlone(c) ==
    IF c.fn = "analyze_swap_price_impact"
    THEN analyze_swap_price_impact(c.input, min_price_delta_bps, min_notional)
    ELSE IF c.fn = "label_transaction_risk"
    THEN label_transaction_risk(c.input, c.watch, large_value_threshold)
    ELSE score_wallet_activity(c.watch, c.input, <<>>, <<>>)

\* C27: no detector, scorer or labeler changes its arguments (the batch, each
\* event or finding in it, the watchlist) and none keeps state between calls:
\* a step of one invocation leaves the other invocation as it was, and an
\* invocation interleaved with another in any order returns what it returns
\* when run alone.
C27_PureAndIndependent ==
    /\ [][\A i \in DOMAIN calls :
             /\ calls'[i].fn = calls[i].fn
             /\ calls'[i].input = calls[i].input
             /\ calls'[i].watch = calls[i].watch]_vars
    /\ [][\E i \in DOMAIN calls :
             \A j \in DOMAIN calls \ {i} : calls'[j] = calls[j]]_vars
    /\ [](\A i \in DOMAIN calls :
             calls[i].pc = "done" => calls[i].acc = RunAlone(calls[i]))

\* two price scans of two events each: the second has run to its end and
\* returned a finding while the first holds the price of its first event and
\* has its second event still to come
C27_Witness ==
    /\ calls # <<>>
    /\ \A i \in 1..2 :
          /\ calls[i].fn = "analyze_swap_price_impact"
          /\ Len(calls[i].input) = 2
    /\ calls[1].position = 1
    /\ calls[1].prev = Some(40000)
    /\ calls[1].pc = "running"
    /\ calls[2].pc = "done"
    /\ Len(calls[2].acc) = 1
    /\ calls[2].acc[1].previous_price = 10000

----------------------------------------------------------------------------
(* The alerts of the wallet, event-log and swap orchestrators against the
   finding lists they were built from *)

Finding(category, item) == [category |-> category, item |-> item]

Tagged(category, payload) == [i \in 1..Len(payload) |-> Finding(category, payload[i])]

\* the finding lists the orchestrator holds once its detectors and the
\* caller-level filter of the pattern findings have run, in category order
KeptFindings ==
    IF request.kind = "swap"
    THEN Tagged("price_impact", price_impacts) \o Tagged("wash_trade", wash_trades)
    ELSE Tagged("value_anomaly", anomalies)
         \o Tagged("large_transfer", large_transfers)
         \o Tagged("centrality", centrality)
         \o Tagged("trend", trend_alerts)
         \o Tagged("heuristic", filtered_patterns)

EventOrchestrated == Responded /\ request.kind \in {"wallet", "event_logs", "swap"}

\* C28, amended: in the wallet, event-log and swap orchestrators the alerts
\* match one to one the findings left once the caller-level filter has been
\* applied to the pattern findings: as many alerts as findings in all the
\* lists, grouped in the fixed category order and in detector output order
\* within a group; an alert's severity is the finding's own when it carries
\* one and the fixed default of its category otherwise; the verdict is
\* "clear" exactly when every one of these lists is empty.
C28_AlertsMirrorFindings ==
    EventOrchestrated =>
        /\ Len(response.alerts) = Len(KeptFindings)
        /\ \A k \in 1..Len(KeptFindings) :
              /\ response.alerts[k].type = KeptFindings[k].category
              /\ response.alerts[k].details = KeptFindings[k].item
              /\ response.alerts[k].severity =
                    IF "severity" \in DOMAIN KeptFindings[k].item
                    THEN KeptFindings[k].item.severity
                    ELSE SEVERITY_DEFAULTS[KeptFindings[k].category]
        /\ response.summary.verdict = "clear" <=> KeptFindings = <<>>

\* the finding lists as the detectors returned them, the pattern findings
\* ahead of the caller-level filter
DetectorFindings ==
    IF request.kind = "swap"
    THEN KeptFindings
    ELSE Tagged("value_anomaly", anomalies)
         \o Tagged("large_transfer", large_transfers)
         \o Tagged("centrality", centrality)
         \o Tagged("trend", trend_alerts)
         \o Tagged("heuristic", detect_suspicious_patterns(decoded_logs))

\* C28 as stated, the lists being what the detectors returned: as many
\* alerts as the detectors returned findings, and the verdict "clear" exactly
\* when every detector returned an empty list.
C28_AlertsMirrorDetectorOutput ==
    EventOrchestrated =>
        /\ Len(response.alerts) = Len(DetectorFindings)
        /\ response.summary.verdict = "clear" <=> DetectorFindings = <<>>

\* a wallet analysis with alerts of three categories, a trend finding that
\* carries its own severity among them, and a pattern finding the filter
\* dropped
C28_Witness ==
    /\ EventOrchestrated
    /\ request.kind = "wallet"
    /\ large_transfers # <<>>
    /\ centrality # <<>>
    /\ trend_alerts # <<>>
    /\ "severity" \in DOMAIN trend_alerts[1]
    /\ response.alerts[Len(response.alerts)].severity = "low"
    /\ Len(filtered_patterns) < Len(detect_suspicious_patterns(decoded_logs))

----------------------------------------------------------------------------
(* The alerts of analyze_transaction against the labelled transactions *)

TransactionAnalysed == Responded /\ request.kind = "transaction"

Flagged(i) == enriched[i].risk_flags # <<>>

LargeValue(i) == "large_value" \in SeqToSet(enriched[i].risk_flags)

\* the position in the batch of the k-th transaction that carries a flag
FlaggedAt(k) ==
    CHOOSE i \in 1..Len(enriched) :
        Flagged(i) /\ Cardinality({j \in 1..i : Flagged(j)}) = k

\* C29: analyze_transaction emits one alert for each transaction that has at
\* least one risk flag, in batch order, and none for a transaction without
\* flags; the alert's severity is "high" if the transaction carries
\* large_value and "medium" if it does not; so the overall severity is
\* "high" exactly when some transaction is flagged large_value.
C29_OneAlertPerFlaggedTransaction ==
    TransactionAnalysed =>
        /\ Len(response.alerts) = Cardinality({i \in 1..Len(enriched) : Flagged(i)})
        /\ \A k \in 1..Len(response.alerts) :
              /\ response.alerts[k].details = enriched[FlaggedAt(k)]
              /\ response.alerts[k].severity =
                    IF LargeValue(FlaggedAt(k)) THEN "high" ELSE "medium"
        /\ response.summary.severity = "high"
              <=> \E i \in 1..Len(enriched) : LargeValue(i)

\* a batch of an unflagged transaction followed by one flagged large_value
\* only: one alert, for the second, and the overall severity "high"; and a
\* batch whose only flagged transaction is on the watchlist: "medium"
C29_Witness ==
    /\ TransactionAnalysed
    /\ Len(enriched) = 2
    /\ \/ /\ ~Flagged(1)
          /\ enriched[2].risk_flags = <<"large_value">>
          /\ Len(response.alerts) = 1
          /\ response.alerts[1].details.hash = enriched[2].hash
          /\ response.summary.severity = "high"
       \/ /\ enriched[1].risk_flags = <<"sender_watchlist">>
          /\ ~Flagged(2)
          /\ Len(response.alerts) = 1
          /\ response.summary.severity = "medium"

----------------------------------------------------------------------------
(* HyperSyncClient.paginate (dal.py): a generator; each action below is one
   next() of the consumer, from where the generator stands to its next
   yield, its return or its exception.  The variable query is the local q and
   response_payload the local payload *)

MaxPages == 3

\* the truth value Python gives a raw value
RawTruthy(raw) == (raw.t = "int" /\ raw.n # 0) \/ (raw.t = "str" /\ raw.s # "")

\* a or b
PyOr(a, b) == IF RawTruthy(a) THEN a ELSE b

\* int(x) on an int or a string; NoInt = ValueError
PyInt(raw) ==
    IF raw.t = "int" THEN Some(raw.n)
    ELSE IF raw.s \in DOMAIN DecLiteral /\ ~StartsWith0x(raw.s)
    THEN Some(DecLiteral[raw.s])
    ELSE NoInt

\* payload.get("next_block") or (payload.get("meta") or {}).get("next_block")
NextBlockOf(p) ==
    PyOr(GetOr(p, "next_block", NoneVal),
         GetOr(GetOr(p, "meta", <<>>), "next_block", NoneVal))

\* q["from_block"] = int(next_block)
SetFromBlock(qu, n) ==
    [k \in DOMAIN qu \cup {"from_block"} |-> IF k = "from_block" THEN n ELSE qu[k]]

\* the meta object of a response: none, one without next_block, one with
Metas ==
    {<<>>, [archive_height |-> IntVal(900)],
     [next_block |-> IntVal(170)], [next_block |-> IntVal(0)]}

\* next_block at top level: null, 0, a block number, a block number as a
\* string, a string that is no number
TopLevelNextBlocks == {NoneVal, IntVal(0), IntVal(150), StrVal("1000"), StrVal("junk")}

\* the JSON objects _post may return
Payloads ==
    {[data |-> "<rows>", meta |-> m] : m \in Metas}
    \cup {[data |-> "<rows>", next_block |-> nb, meta |-> m] :
             nb \in TopLevelNextBlocks, m \in Metas}

BaseQueries ==
    {[from_block |-> 100, to_block |-> 500, logs |-> "<selection>"],
     [logs |-> "<selection>"]}

PaginateInit ==
    /\ ScoreIdle
    /\ LabelIdle
    /\ OrchIdle
    /\ SanitizeIdle
    /\ InterleaveIdle
    /\ OptionsAtRest
    /\ decoded_logs = <<>>
    /\ position = 0
    /\ prev_price = NoInt
    /\ findings = <<>>
    /\ pc = "paginating"
    /\ base_query \in BaseQueries
    /\ max_pages \in 0..MaxPages
    /\ query = <<>>
    /\ response_payload = <<>>
    /\ requests = <<>>
    /\ gen = "created"

notPageVars == <<scoreVars, detectVars, labelVars, orchVars, sanitizeVars, interleaveVars>>

\* range(max_pages) is empty: the generator returns at once
StartEmpty ==
    /\ gen = "created"
    /\ max_pages <= 0
    /\ query' = base_query
    /\ gen' = "done"
    /\ UNCHANGED <<base_query, max_pages, response_payload, requests, notPageVars>>

\* q = dict(base_query); the first _post and the first yield
Start ==
    /\ gen = "created"
    /\ max_pages > 0
    /\ query' = base_query
    /\ requests' = Append(requests, query')
    /\ response_payload' \in Payloads
    /\ gen' = "yielded"
    /\ UNCHANGED <<base_query, max_pages, notPageVars>>

\* the first _post raises HyperSyncError
StartFails ==
    /\ gen = "created"
    /\ max_pages > 0
    /\ query' = base_query
    /\ requests' = Append(requests, query')
    /\ gen' = "raised"
    /\ UNCHANGED <<base_query, max_pages, response_payload, notPageVars>>

\* if next_block is None: break
StopNoNextBlock ==
    /\ gen = "yielded"
    /\ NextBlockOf(response_payload) = NoneVal
    /\ gen' = "done"
    /\ UNCHANGED <<base_query, max_pages, query, response_payload, requests, notPageVars>>

\* int(next_block) raises ValueError
StopBadNextBlock ==
    /\ gen = "yielded"
    /\ NextBlockOf(response_payload) # NoneVal
    /\ PyInt(NextBlockOf(response_payload)) = NoInt
    /\ gen' = "raised"
    /\ UNCHANGED <<base_query, max_pages, query, response_payload, requests, notPageVars>>

Continuing ==
    /\ gen = "yielded"
    /\ NextBlockOf(response_payload) # NoneVal
    /\ PyInt(NextBlockOf(response_payload)) # NoInt

\* the assignment to q["from_block"] of the last iteration, then the end of
\* range(max_pages)
StopPagesExhausted ==
    /\ Continuing
    /\ Len(requests) >= max_pages
    /\ query' = SetFromBlock(query, PyInt(NextBlockOf(response_payload))[1])
    /\ gen' = "done"
    /\ UNCHANGED <<base_query, max_pages, response_payload, requests, notPageVars>>

\* the assignment to q["from_block"], the next _post and the next yield
NextPage ==
    /\ Continuing
    /\ Len(requests) < max_pages
    /\ query' = SetFromBlock(query, PyInt(NextBlockOf(response_payload))[1])
    /\ requests' = Append(requests, query')
    /\ response_payload' \in Payloads
    /\ gen' = "yielded"
    /\ UNCHANGED <<base_query, max_pages, notPageVars>>

\* the assignment to q["from_block"], and a _post that raises HyperSyncError
NextPageFails ==
    /\ Continuing
    /\ Len(requests) < max_pages
    /\ query' = SetFromBlock(query, PyInt(NextBlockOf(response_payload))[1])
    /\ requests' = Append(requests, query')
    /\ gen' = "raised"
    /\ UNCHANGED <<base_query, max_pages, response_payload, notPageVars>>

PaginateNext ==
    \/ StartEmpty
    \/ Start
    \/ StartFails
    \/ StopNoNextBlock
    \/ StopBadNextBlock
    \/ StopPagesExhausted
    \/ NextPage
    \/ NextPageFails

SpecPaginate == PaginateInit /\ [][PaginateNext]_vars

\* the next_block a response carries at top level, null or missing counting
\* as none
TopLevel(p) == GetOr(p, "next_block", NoneVal)

\* the next_block a response carries under meta
UnderMeta(p) == GetOr(GetOr(p, "meta", <<>>), "next_block", NoneVal)

CarriesNextBlock(p) == TopLevel(p) # NoneVal \/ UnderMeta(p) # NoneVal

\* the next_block of a response: the one at top level, else the one under meta
CarriedNextBlock(p) == IF TopLevel(p) # NoneVal THEN TopLevel(p) ELSE UnderMeta(p)

Ended == gen \in {"done", "raised"}

\* C30: paginate terminates: every step either ends the generator or issues
\* one more request, and at most max_pages requests are issued; it stops
\* after a response that carries no next_block at top level or under meta and
\* not before one while pages remain; the first request is base_query and
\* every later one is the request before it with from_block set to the
\* next_block of the response before it; base_query is never modified.
C30_PaginateBoundedAndChained ==
    /\ [](Len(requests) <= max_pages)
    /\ [][gen' \in {"done", "raised"} \/ Len(requests') = Len(requests) + 1]_vars
    /\ [][Ended => UNCHANGED pageVars]_vars
    /\ [][(gen = "yielded" /\ ~CarriesNextBlock(response_payload))
          => (gen' = "done" /\ requests' = requests)]_vars
    /\ [][(gen = "yielded" /\ CarriesNextBlock(response_payload)
           /\ Len(requests) < max_pages)
          => gen' # "done"]_vars
    /\ [][(requests = <<>> /\ requests' # <<>>) => requests' = <<base_query>>]_vars
    /\ [][(requests # <<>> /\ Len(requests') > Len(requests))
          => LET old == requests[Len(requests)]
                 new == requests'[Len(requests')]
             IN /\ Some(new.from_block) = PyInt(CarriedNextBlock(response_payload))
                /\ DOMAIN new = DOMAIN old \cup {"from_block"}
                /\ \A k \in DOMAIN old \ {"from_block"} : new[k] = old[k]]_vars
    /\ [][base_query' = base_query]_vars

----------------------------------------------------------------------------
(* The whole engine: any one of the calls above *)

Init ==
    \/ ScoreInit
    \/ AnomalyInit
    \/ LargeInit
    \/ CentralityInit
    \/ WashInit
    \/ PriceImpactInit
    \/ PatternsInit
    \/ LabelInit
    \/ CounterpartyInit
    \/ SanitizeInit
    \/ OrchInit
    \/ InterleaveInit
    \/ PaginateInit

\* the calls on a decoded batch are told apart by the events they were drawn
\* for: each is enabled on the batches of its own specification
Next ==
    \/ ScoreNext
    \/ (decoded_logs \in SeqsUpTo(ValueEvents, MaxBatch) /\ CallDetectValueAnomalies)
    \/ (decoded_logs \in SeqsUpTo(ValueEvents, MaxBatch) /\ CallDetectLargeTransfers)
    \/ (decoded_logs \in SeqsUpTo(GraphEvents, MaxGraphBatch) /\ CallComputeAddressCentrality)
    \/ (decoded_logs \in SeqsUpTo(WashEvents, MaxWashBatch) /\ CallDetectSwapWashTrades)
    \/ (decoded_logs \in SeqsUpTo(SwapEvents, MaxSwapBatch) /\ PriceImpactNext)
    \/ (decoded_logs \in SeqsUpTo(PatternEvents, MaxPatternBatch) /\ PatternsNext)
    \/ (transactions \in SeqsUpTo(TxUniverse, MaxTxBatch) /\ CallLabelTransactionRisk)
    \/ (decoded_logs \in SeqsUpTo(LedgerEvents, MaxLedgerBatch) /\ CallSummarizeCounterparties)
    \/ (obj # JNone /\ SanitizeNext)
    \/ (request.kind # "none" /\ OrchNext)
    \/ (calls # <<>> /\ InterleaveNext)
    \/ (gen # "none" /\ PaginateNext)

Spec == Init /\ [][Next]_vars

====
